---- MODULE Spec2Model ----
(***************************************************************************)
(* The API resource collector of the compliance operator                   *)
(* (scapContentDataStream): discovery of the resource paths a profile      *)
(* needs (FigureResources), collection of those paths from the cluster     *)
(* (FetchResources / fetch), reconciliation of the per-node kubelet        *)
(* configs of a role (saveConsistentKubeletResult), the files written      *)
(* from the result (SaveResources, SaveWarningsIfAny), the wait for the    *)
(* content file (openNonEmptyFile), and the paginated listing of the       *)
(* MachineConfigs (mcStreamer.Stream).                                     *)
(*                                                                         *)
(* Specifications: Spec (discovery), SpecPaths (getResourcePaths),         *)
(* SpecFetch (a fetch pass, path by path), SpecSave (fetch passes and      *)
(* SaveResources), SpecWarn (fetch passes and SaveWarningsIfAny),          *)
(* SpecDest (getSaveDirectoryAndFileName), SpecReconcile                   *)
(* (saveConsistentKubeletResult), SpecWait (openNonEmptyFile),             *)
(* SpecStream (mcStreamer.Stream).                                         *)
(*                                                                         *)
(* Representation.                                                         *)
(*   - A path "/a/b" is the sequence strings.Split(path, "/") returns,     *)
(*     <<"", "a", "b">>, so prefix tests and splitting are computed.       *)
(*   - A []byte payload is a record with a field fmt: "empty" (length 0),  *)
(*     "pretty" or "compact" (a JSON document val in that layout),         *)
(*     "garbage" (bytes that are not JSON) or "marker" (the textual        *)
(*     '# kube-api-error=<reason>' payload).                               *)
(*   - A Go map is a function; a map that may be nil carries a flag.       *)
(*   - A warning string is a record of the parts formatted into it.        *)
(*   - The file system is the set of its directories and the map from the  *)
(*     path of a file to its bytes.                                        *)
(***************************************************************************)
EXTENDS Integers, Sequences, FiniteSets, TLC

VARIABLES
    dataStream,   \* c.dataStream: the parsed benchmark document, or NoDoc
    tailoring,    \* c.tailoring: the parsed tailoring document, or NoDoc
    resources,    \* c.resources: the ResourcePaths to collect
    found,        \* c.found: the result map of the last successful fetch
    nodeList,     \* the cluster's nodes, as c.client.List returns them
    lastRun,      \* the last discovery run: its inputs and what it produced
    pc,           \* position of FetchResources: "idle" or "loop"
    idx,          \* index into objects of the next path of the fetch loop
    results,      \* fetch's local result map
    warnings,     \* fetch's local warning list
    trace,        \* what the cluster answered for each path of this pass
    ret,          \* what fetch returned last
    call,         \* a direct application of a pure function: arguments, result
    disk,         \* the file system: its directories and the content of its files
    saved,        \* what SaveResources or SaveWarningsIfAny was given and returned last
    fileState,    \* the content file openNonEmptyFile waits for, as os.Open sees it
    poller,       \* the polling goroutine of openNonEmptyFile: position, sleep left,
                  \* and the os.Open calls it made since openNonEmptyFile returned
    readFileTimeoutChan, \* the buffered channel between the goroutine and the select
    waiter,       \* the caller of openNonEmptyFile: position and what it was returned
    now,          \* seconds since openNonEmptyFile armed time.After
    exited,       \* the process has ended in os.Exit(1), and why
    stream,       \* mcStreamer.Stream: its position and what it returned
    continueToken,   \* Stream's local continueToken
    mcfgListNoFiles, \* Stream's local list: the Items accumulated so far
    listed        \* the List calls of Stream: the options sent, the answer

vars == <<dataStream, tailoring, resources, found, nodeList, lastRun,
          pc, idx, results, warnings, trace, ret, call, disk, saved,
          fileState, poller, readFileTimeoutChan, waiter, now, exited,
          stream, continueToken, mcfgListNoFiles, listed>>

discoveryVars == <<dataStream, tailoring, nodeList, lastRun, call>>
fetchVars == <<found, pc, idx, results, warnings, trace, ret>>
persistVars == <<disk, saved>>
waitVars == <<fileState, poller, readFileTimeoutChan, waiter, now, exited>>
streamVars == <<stream, continueToken, mcfgListNoFiles, listed>>

-----------------------------------------------------------------------------
(* Bounds *)

\* non-ok answers of the cluster within one fetch pass
MaxFaults == 1

\* segments of the DumpPaths getSaveDirectoryAndFileName is applied to
MaxSegments == 3

\* pages Stream lists in one call
MaxPages == 2

-----------------------------------------------------------------------------
(* Constants of the program *)

kubeletConfigPathPrefix == <<"", "kubeletconfig">>
kubeletConfigRolePathPrefix == <<"", "kubeletconfig", "role">>
MoreThanOneObjErr == "more than one object returned from the filter"
KubeletFilter == ".kubeletconfig|.kind=KubeletConfiguration|.apiVersion=kubelet.config.k8s.io/v1beta1"
NoErr == "nil"

-----------------------------------------------------------------------------
(* Maps, orders *)

EmptyMap == <<>>

Put(m, k, v) == [x \in (DOMAIN m) \cup {k} |-> IF x = k THEN v ELSE m[x]]

\* every order in which a range loop may visit the keys of a Go map
RECURSIVE Orders(_)
Orders(S) ==
    IF S = {} THEN {<<>>}
    ELSE UNION { {<<x>> \o p : p \in Orders(S \ {x})} : x \in S }

-----------------------------------------------------------------------------
(* JSON *)

IsJSON(bytes) == bytes.fmt \in {"pretty", "compact"}

\* json.Marshal: the compact layout of a value
Marshal(v) == [fmt |-> "compact", val |-> v]

\* jsondiff.CompareJSON: the members at which two documents differ; an error
\* when either is not JSON.  An empty diff is the nil patch.
CompareJSON(source, target) ==
    IF ~IsJSON(source) \/ ~IsJSON(target)
    THEN [err |-> TRUE, diff |-> {}]
    ELSE LET a == source.val
             b == target.val
         IN [err |-> FALSE,
             diff |-> {k \in (DOMAIN a) \cup (DOMAIN b) :
                          \/ k \notin DOMAIN a
                          \/ k \notin DOMAIN b
                          \/ a[k] # b[k]}]

\* utils.JSONIntersection: the members present and equal in both documents
JSONIntersection(a, b) ==
    IF ~IsJSON(a) \/ ~IsJSON(b)
    THEN [err |-> TRUE, out |-> [fmt |-> "empty"]]
    ELSE [err |-> FALSE,
          out |-> Marshal([k \in {k \in (DOMAIN a.val) \cap (DOMAIN b.val) :
                                     a.val[k] = b.val[k]} |-> a.val[k]])]

\* the values a gojq query emits for a JSON object, in order; err when the
\* first thing it emits is an error value
RunFilter(fltr, obj) ==
    IF fltr = KubeletFilter
    THEN LET kc == IF "kubeletconfig" \in DOMAIN obj
                   THEN obj.kubeletconfig ELSE EmptyMap
         IN [err |-> FALSE,
             vals |-> << Put(Put(kc, "kind", "KubeletConfiguration"),
                             "apiVersion", "kubelet.config.k8s.io/v1beta1") >>]
    ELSE IF fltr = ".items[]"
    THEN IF "items" \in DOMAIN obj
         THEN [err |-> FALSE, vals |-> obj.items]
         ELSE [err |-> TRUE, vals |-> <<>>]
    ELSE [err |-> FALSE, vals |-> <<obj>>]

FilterOK(fltr) == fltr \in {KubeletFilter, ".items[]", "."}

\* the value kept when the filter emits several: the last one
KeptLast(iter) == iter.vals[Len(iter.vals)]
\* the value kept: the first one
Kept(iter) == iter.vals[1]

filter(rawobj, fltr) ==
    IF ~FilterOK(fltr)
    THEN [out |-> [fmt |-> "empty"], err |-> "could not create filter"]
    ELSE IF ~IsJSON(rawobj)
    THEN [out |-> [fmt |-> "empty"], err |-> "Error unmarshalling json"]
    ELSE LET iter == RunFilter(fltr, rawobj.val)
         IN IF ~iter.err /\ Len(iter.vals) = 0
            THEN [out |-> [fmt |-> "empty"], err |-> "couldn't get filtered object"]
            ELSE IF iter.err
            THEN [out |-> [fmt |-> "empty"], err |-> "filter error"]
            ELSE IF Len(iter.vals) > 1
            THEN [out |-> Marshal(Kept(iter)), err |-> MoreThanOneObjErr]
            ELSE [out |-> Marshal(Kept(iter)), err |-> NoErr]

-----------------------------------------------------------------------------
(* Resource paths *)

ResourcePath(obj, dump, fltr) == [ObjPath |-> obj, DumpPath |-> dump, Filter |-> fltr]

KubeletConfigPath(role, node) ==
    ResourcePath(<<"", "api", "v1", "nodes", node, "proxy", "configz">>,
                 kubeletConfigPathPrefix \o <<role, node>>,
                 KubeletFilter)

getRoleNodeNameFromDumpPath(dumpPath) ==
    IF Len(dumpPath) >= 3 /\ SubSeq(dumpPath, 1, 2) = kubeletConfigPathPrefix
    THEN IF Len(dumpPath) # 4
         THEN [role |-> "", node |-> ""]
         ELSE [role |-> dumpPath[3], node |-> dumpPath[4]]
    ELSE [role |-> "", node |-> ""]

-----------------------------------------------------------------------------
(* Warnings *)

CouldNotFetch(uri, reason) == [w |-> "could not fetch", uri |-> uri, reason |-> reason]
SkippingExtra(fltr) == [w |-> MoreThanOneObjErr, filter |-> fltr]
NotConsistent(node, role, diff) ==
    [w |-> "Kubelet configs are not consistent", node |-> node, role |-> role, diff |-> diff]

\* kerrors.ReasonForError of the status error the API server answered with
ReasonForError(kind) ==
    IF kind = "notfound" THEN "NotFound"
    ELSE IF kind = "forbidden" THEN "Forbidden"
    ELSE "Unknown"

ErrorMarker(reason) == [fmt |-> "marker", reason |-> reason]

-----------------------------------------------------------------------------
(* The cluster, as the streamers see it *)

ConfigA == [maxPods |-> 250, port |-> 10250]
ConfigB == [maxPods |-> 110, port |-> 10250]
ConfigC == [maxPods |-> 250, port |-> 10255]

KubeletBody(cfg) == [fmt |-> "pretty", val |-> [kubeletconfig |-> cfg]]
ItemsBody(items) == [fmt |-> "pretty", val |-> [items |-> items]]
VersionBody == [fmt |-> "pretty", val |-> [gitVersion |-> "v1.25"]]
EmptyBody == [fmt |-> "empty"]
GarbageBody == [fmt |-> "garbage"]

IsConfigz(uri) == Len(uri) = 7 /\ uri[7] = "configz"

\* the bodies a successful stream of the URI may deliver
Bodies(uri) ==
    IF IsConfigz(uri) THEN {KubeletBody(ConfigA), KubeletBody(ConfigB)}
    ELSE IF uri = <<"", "api", "v1", "pods">>
    THEN {ItemsBody(<<>>), ItemsBody(<<[name |-> "a"]>>),
          ItemsBody(<<[name |-> "a"], [name |-> "b"]>>), GarbageBody}
    ELSE {VersionBody, EmptyBody}

StreamKinds == {"ok", "notfound", "forbidden", "nomatch", "error", "readerr"}

Outcome(kind, body) == [kind |-> kind, body |-> body]

Faults(tr) == Cardinality({i \in DOMAIN tr : tr[i].kind # "ok"})

\* what streamer.Stream and ioutil.ReadAll may answer for the URI
StreamOutcomes(uri, tr) ==
    {Outcome("ok", b) : b \in Bodies(uri)}
      \cup (IF Faults(tr) < MaxFaults
            THEN {Outcome(k, EmptyBody) : k \in StreamKinds \ {"ok"}}
            ELSE {})

-----------------------------------------------------------------------------
(* fetch *)

\* every stream error is recorded as a warning
AnyErrorIsNonFatal(kind) == kind \in {"nomatch", "forbidden", "notfound", "error"}
\* meta.IsNoMatchError(err) || kerrors.IsForbidden(err) || kerrors.IsNotFound(err)
IsNonFatal(kind) == kind \in {"nomatch", "forbidden", "notfound"}

\* every non-fatal error leaves a marker
AlwaysPersistsMarker(kind) == TRUE
\* kerrors.IsNotFound(err): the error marker is stored for 404s only
PersistsMarker(kind) == kind = "notfound"

\* every filter error is recorded as a warning
AnyFilterError(err) == err # NoErr
\* errors.Is(filterErr, MoreThanOneObjErr)
IsMoreThanOne(err) == err = MoreThanOneObjErr

\* a body of no bytes is handled like any other
AnyData(body) == FALSE
\* line 570: len(body) == 0
NoData(body) == body.fmt = "empty"

\* the body of fetch's loop for one path: the closure at lines 548-587
fetchOne(rpath, o, res, warn) ==
    IF IsNonFatal(o.kind)
    THEN [results |-> IF PersistsMarker(o.kind)
                      THEN Put(res, rpath.DumpPath, ErrorMarker(ReasonForError(o.kind)))
                      ELSE res,
          warnings |-> Append(warn, CouldNotFetch(rpath.ObjPath, ReasonForError(o.kind))),
          err |-> NoErr]
    ELSE IF o.kind = "error"
    THEN [results |-> res, warnings |-> warn, err |-> "streaming URIs failed"]
    ELSE IF o.kind = "readerr"
    THEN [results |-> res, warnings |-> warn, err |-> "read failed"]
    ELSE IF NoData(o.body)
    THEN [results |-> res, warnings |-> warn, err |-> NoErr]
    ELSE IF rpath.Filter # ""
    THEN LET f == filter(o.body, rpath.Filter)
         IN IF IsMoreThanOne(f.err)
            THEN [results |-> Put(res, rpath.DumpPath, f.out),
                  warnings |-> Append(warn, SkippingExtra(rpath.Filter)),
                  err |-> NoErr]
            ELSE IF f.err # NoErr
            THEN [results |-> res, warnings |-> warn, err |-> "couldn't filter"]
            ELSE [results |-> Put(res, rpath.DumpPath, f.out),
                  warnings |-> warn, err |-> NoErr]
    ELSE [results |-> Put(res, rpath.DumpPath, o.body), warnings |-> warn, err |-> NoErr]

\* the config seen last becomes the role's config
lastSeen(existingKC, content, intersectionKC) == content
\* line 620: kubeletConfigsRole[role] = intersectionKC
newBaseline(existingKC, content, intersectionKC) == intersectionKC

\* the divergence warning is put before the warnings there are
prependWarning(warning, why) == <<why>> \o warning
\* line 615: warning = append(warning, why)
appendWarning(warning, why) == Append(warning, why)

\* the first loop of saveConsistentKubeletResult, visiting the keys in order
RECURSIVE foldKubeletConfigs(_, _, _, _)
foldKubeletConfigs(result, order, i, acc) ==
    IF i > Len(order) \/ acc.err # NoErr THEN acc
    ELSE LET dumpPath == order[i]
             content == result[dumpPath]
             rn == getRoleNodeNameFromDumpPath(dumpPath)
         IN IF rn.role = ""
            THEN foldKubeletConfigs(result, order, i + 1, acc)
            ELSE IF rn.role \in DOMAIN acc.roles
            THEN LET existingKC == acc.roles[rn.role]
                     cmp == CompareJSON(existingKC, content)
                     inter == JSONIntersection(existingKC, content)
                 IN IF cmp.err
                    THEN [acc EXCEPT !.err = "couldn't compare kubelet configs"]
                    ELSE IF cmp.diff # {}
                    THEN IF inter.err
                         THEN [acc EXCEPT !.err = "couldn't get intersection"]
                         ELSE foldKubeletConfigs(result, order, i + 1,
                                [roles |-> Put(acc.roles, rn.role,
                                               newBaseline(existingKC, content, inter.out)),
                                 warning |-> appendWarning(acc.warning,
                                               NotConsistent(rn.node, rn.role, cmp.diff)),
                                 err |-> NoErr])
                    ELSE foldKubeletConfigs(result, order, i + 1, acc)
            ELSE foldKubeletConfigs(result, order, i + 1,
                   [acc EXCEPT !.roles = Put(acc.roles, rn.role, content)])

\* the second loop: one role-level entry per role
RECURSIVE storeRoles(_, _, _)
storeRoles(result, roles, todo) ==
    IF todo = {} THEN result
    ELSE LET role == CHOOSE r \in todo : TRUE
         IN storeRoles(IF role = "" THEN result
                       ELSE Put(result, kubeletConfigRolePathPrefix \o <<role>>, roles[role]),
                       roles, todo \ {role})

\* order: the order in which the range loop visits the keys of result
saveConsistentKubeletResult(result, warning, order) ==
    IF DOMAIN result = {}
    THEN [nil |-> FALSE, results |-> result, warnings |-> warning, err |-> NoErr]
    ELSE LET acc == foldKubeletConfigs(result, order, 1,
                      [roles |-> EmptyMap, warning |-> warning, err |-> NoErr])
         IN IF acc.err # NoErr
            THEN [nil |-> TRUE, results |-> EmptyMap, warnings |-> <<>>, err |-> acc.err]
            ELSE [nil |-> FALSE,
                  results |-> storeRoles(result, acc.roles, DOMAIN acc.roles),
                  warnings |-> acc.warning, err |-> NoErr]

NilMap == [nil |-> TRUE, m |-> EmptyMap]
NoDoc == [nil |-> TRUE]
NoCall == [done |-> FALSE, nil |-> TRUE]
NoRun == [nil |-> TRUE]
NoReturn == [called |-> FALSE, nil |-> TRUE, warnings |-> <<>>, err |-> NoErr]

\* the directories the caller passes: the volume the resources are saved to
\* and the volume of the warnings file; both are mounted when the program starts
rootDir == <<"", "kubernetes-api-resources">>
outputFile == <<"", "reports", "warnings_output">>
EmptyDisk == [dirs |-> {rootDir, <<"", "reports">>}, files |-> EmptyMap]
NoSave == [op |-> "none"]

\* nothing was saved yet
PersistIdle == disk = EmptyDisk /\ saved = NoSave

\* openNonEmptyFile was not called
WaitIdle ==
    /\ fileState = "absent"
    /\ poller = [pc |-> "none", sleep |-> 0, size |-> 0, opens |-> 0]
    /\ readFileTimeoutChan = <<>>
    /\ waiter = [pc |-> "none"]
    /\ now = 0
    /\ exited = "no"

\* mcStreamer.Stream was not called
StreamIdle ==
    /\ stream = [pc |-> "none"]
    /\ continueToken = <<>>
    /\ mcfgListNoFiles = <<>>
    /\ listed = <<>>

\* FetchResources calls fetch, which starts its loop with an empty result map
FetchResourcesCall ==
    /\ pc = "idle"
    /\ pc' = "loop"
    /\ idx' = 1
    /\ results' = EmptyMap
    /\ warnings' = <<>>
    /\ trace' = <<>>
    /\ ret' = NoReturn
    /\ UNCHANGED <<resources, found, discoveryVars, persistVars, waitVars, streamVars>>

\* one iteration of fetch's loop; an error returns from fetch and from
\* FetchResources, which leaves c.found alone
FetchPath ==
    /\ pc = "loop"
    /\ idx <= Len(resources)
    /\ \E o \in StreamOutcomes(resources[idx].ObjPath, trace) :
         LET r == fetchOne(resources[idx], o, results, warnings)
         IN /\ trace' = Append(trace, o)
            /\ IF r.err # NoErr
               THEN /\ pc' = "idle"
                    /\ ret' = [called |-> TRUE, nil |-> TRUE,
                               warnings |-> warnings, err |-> r.err]
                    /\ UNCHANGED <<idx, results, warnings>>
               ELSE /\ idx' = idx + 1
                    /\ results' = r.results
                    /\ warnings' = r.warnings
                    /\ UNCHANGED <<pc, ret>>
    /\ UNCHANGED <<resources, found, discoveryVars, persistVars, waitVars, streamVars>>

\* after the last path: saveConsistentKubeletResult, fetch returns, and
\* FetchResources stores the map in c.found unless fetch failed
FetchReturn ==
    /\ pc = "loop"
    /\ idx > Len(resources)
    /\ \E order \in Orders(DOMAIN results) :
         LET r == saveConsistentKubeletResult(results, warnings, order)
         IN /\ ret' = [called |-> TRUE, nil |-> r.nil,
                       warnings |-> r.warnings, err |-> r.err]
            /\ found' = IF r.err # NoErr THEN found
                        ELSE [nil |-> r.nil, m |-> r.results]
    /\ pc' = "idle"
    /\ UNCHANGED <<idx, results, warnings, trace, resources, discoveryVars, persistVars, waitVars, streamVars>>

-----------------------------------------------------------------------------
(* The object lists fetch is applied to *)

VersionPath == ResourcePath(<<"", "version">>, <<"", "version">>, "")
PodsPath == ResourcePath(<<"", "api", "v1", "pods">>, <<"", "api", "v1", "pods">>, ".items[]")

ObjectLists ==
    { <<>>,
      <<KubeletConfigPath("worker", "n1"), KubeletConfigPath("worker", "n2"),
        KubeletConfigPath("worker", "n3")>>,
      <<PodsPath, KubeletConfigPath("master", "n1"), VersionPath,
        KubeletConfigPath("worker", "n2")>>,
      <<KubeletConfigPath("role", "worker"), KubeletConfigPath("worker", "n1")>> }

InitFetch ==
    /\ resources \in ObjectLists
    /\ found = NilMap
    /\ pc = "idle"
    /\ idx = 1
    /\ results = EmptyMap
    /\ warnings = <<>>
    /\ trace = <<>>
    /\ ret = NoReturn
    /\ PersistIdle
    /\ WaitIdle
    /\ StreamIdle
    /\ dataStream = NoDoc
    /\ tailoring = NoDoc
    /\ nodeList = <<>>
    /\ lastRun = NoRun
    /\ call = NoCall

NextFetch == FetchResourcesCall \/ FetchPath \/ FetchReturn

SpecFetch == InitFetch /\ [][NextFetch]_vars

-----------------------------------------------------------------------------
(* Paths of the file system: package path on the segments of a path *)

Rooted(p) == Len(p) >= 2 /\ p[1] = ""

\* the names path.Clean keeps: no empty name, no ".", every ".." resolved
\* against the name before it (and dropped at the root)
RECURSIVE Resolve(_, _, _)
Resolve(names, stack, rooted) ==
    IF names = <<>> THEN stack
    ELSE LET n == Head(names)
         IN IF n = "" \/ n = "."
            THEN Resolve(Tail(names), stack, rooted)
            ELSE IF n = ".."
            THEN IF stack # <<>> /\ stack[Len(stack)] # ".."
                 THEN Resolve(Tail(names), SubSeq(stack, 1, Len(stack) - 1), rooted)
                 ELSE IF rooted
                 THEN Resolve(Tail(names), stack, rooted)
                 ELSE Resolve(Tail(names), Append(stack, ".."), rooted)
            ELSE Resolve(Tail(names), Append(stack, n), rooted)

\* path.Clean: "/" is <<"", "">>, "." is <<".">>
Clean(p) ==
    LET names == Resolve(p, <<>>, Rooted(p))
    IN IF Rooted(p)
       THEN IF names = <<>> THEN <<"", "">> ELSE <<"">> \o names
       ELSE IF names = <<>> THEN <<".">> ELSE names

RECURSIVE StripSlashes(_)
StripSlashes(p) ==
    IF Len(p) >= 2 /\ p[Len(p)] = ""
    THEN StripSlashes(SubSeq(p, 1, Len(p) - 1))
    ELSE p

\* path.Base: the last element; "." for the empty path, "/" for slashes only
Base(p) ==
    IF p = <<"">> THEN "."
    ELSE LET q == StripSlashes(p)
         IN IF q = <<"">> THEN "/" ELSE q[Len(q)]

\* path.Dir: all but the last element, cleaned
Dir(p) ==
    IF Len(p) = 1 THEN <<".">>
    ELSE Clean(SubSeq(p, 1, Len(p) - 1) \o <<"">>)

\* path.Join of two elements: empty elements are ignored, the result is cleaned
Join(a, b) ==
    IF a = <<"">> THEN (IF b = <<"">> THEN <<"">> ELSE Clean(b))
    ELSE IF b = <<"">> THEN Clean(a)
    ELSE Clean(a \o b)

BadObjectPath == "bad object path"

\* a directory part of "/" is a degenerate destination too
DirIsDotOrRoot(subDirs) == subDirs \in {<<".">>, <<"", "">>}
\* line 710: subDirs == "."
DirIsDot(subDirs) == subDirs = <<".">>

getSaveDirectoryAndFileName(root, apiPath) ==
    LET base == Base(apiPath)
        subDirs == Dir(apiPath)
    IN IF base = "." \/ base = "/"
       THEN [dir |-> <<"">>, file |-> "", err |-> BadObjectPath]
       ELSE IF DirIsDot(subDirs)
       THEN [dir |-> <<"">>, file |-> "", err |-> BadObjectPath]
       ELSE [dir |-> Join(root, subDirs), file |-> base, err |-> NoErr]

-----------------------------------------------------------------------------
(* The file system under the calls of saveResources and SaveWarningsIfAny *)

\* the path itself and the directories above it, the root left out
Ancestors(p) == {SubSeq(p, 1, k) : k \in (IF Rooted(p) THEN 2 ELSE 1)..Len(p)} \ {<<"", "">>}

IsDir(fs, p) == p = <<"", "">> \/ p \in fs.dirs
IsFile(fs, p) == p \in DOMAIN fs.files

\* os.MkdirAll: creates the directory and the missing ones above it; fails
\* when one of them exists as a file
MkdirAll(fs, dir) ==
    IF \E a \in Ancestors(dir) : IsFile(fs, a)
    THEN [disk |-> fs, err |-> "not a directory"]
    ELSE [disk |-> [fs EXCEPT !.dirs = @ \cup Ancestors(dir)], err |-> NoErr]

\* ioutil.WriteFile: creates or truncates the file and writes the bytes
WriteFile(fs, filename, data) ==
    IF IsDir(fs, filename)
    THEN [disk |-> fs, err |-> "is a directory"]
    ELSE IF \E a \in Ancestors(Dir(filename)) : IsFile(fs, a)
    THEN [disk |-> fs, err |-> "not a directory"]
    ELSE IF ~IsDir(fs, Dir(filename))
    THEN [disk |-> fs, err |-> "no such file or directory"]
    ELSE [disk |-> [fs EXCEPT !.files = Put(@, filename, data)], err |-> NoErr]

\* lines 683-701; order: the order in which the range loop visits the map
RECURSIVE saveResources(_, _, _, _)
saveResources(root, data, order, fs) ==
    IF order = <<>> THEN [disk |-> fs, err |-> NoErr]
    ELSE LET apiPath == Head(order)
             fileContents == data[apiPath]
             dest == getSaveDirectoryAndFileName(root, apiPath)
             savePath == Join(dest.dir, <<dest.file>>)
             made == MkdirAll(fs, dest.dir)
             written == WriteFile(made.disk, savePath, fileContents)
         IN IF dest.err # NoErr THEN [disk |-> fs, err |-> dest.err]
            ELSE IF made.err # NoErr THEN [disk |-> fs, err |-> made.err]
            ELSE IF written.err # NoErr THEN [disk |-> made.disk, err |-> written.err]
            ELSE saveResources(root, data, Tail(order), written.disk)

\* the map of the fetch pass that ran last, complete or not
workingMap == [nil |-> FALSE, m |-> results]
\* line 680: c.found
savedMap == found

\* SaveResources(to) with to = rootDir
SaveResources ==
    /\ pc = "idle"
    /\ \E order \in Orders(DOMAIN savedMap.m) :
         LET r == saveResources(rootDir, savedMap.m, order, disk)
         IN /\ disk' = r.disk
            /\ saved' = [op |-> "SaveResources", err |-> r.err]
    /\ UNCHANGED <<resources, fetchVars, discoveryVars, waitVars, streamVars>>

Newline == [w |-> "\n"]

\* strings.Join(warnings, "\n"): the warnings with a newline between each two
RECURSIVE JoinLines(_)
JoinLines(list) ==
    IF Len(list) = 0 THEN <<>>
    ELSE IF Len(list) = 1 THEN list
    ELSE <<Head(list), Newline>> \o JoinLines(Tail(list))

Text(items) == [fmt |-> "text", text |-> items]

\* the file is written for an empty list too
NoSkip(arg) == FALSE
\* line 670: warnings == nil || len(warnings) == 0
NoWarnings(arg) == arg.nil \/ Len(arg.list) = 0

\* the lists the caller may pass: nil, empty, what FetchResources returned
WarningLists ==
    { [nil |-> TRUE, list |-> <<>>],
      [nil |-> FALSE, list |-> <<>>],
      [nil |-> FALSE, list |-> ret.warnings] }

\* SaveWarningsIfAny(warnings, outputFile)
SaveWarningsIfAny ==
    /\ pc = "idle"
    /\ \E arg \in WarningLists :
         IF NoWarnings(arg)
         THEN /\ saved' = [op |-> "SaveWarningsIfAny", arg |-> arg, err |-> NoErr]
              /\ UNCHANGED disk
         ELSE LET r == WriteFile(disk, outputFile, Text(JoinLines(arg.list)))
              IN /\ disk' = r.disk
                 /\ saved' = [op |-> "SaveWarningsIfAny", arg |-> arg, err |-> r.err]
    /\ UNCHANGED <<resources, fetchVars, discoveryVars, waitVars, streamVars>>

\* the object lists the fetch-then-persist pipeline is run with: the kubelet
\* config of a node and the version; the node list and the kubelet endpoint
\* of a node, where one DumpPath is a directory of the other; a DumpPath
\* without a directory
NodesPath == ResourcePath(<<"", "api", "v1", "nodes">>, <<"", "api", "v1", "nodes">>, "")
ConfigzPath ==
    ResourcePath(<<"", "api", "v1", "nodes", "foo", "proxy", "configz">>,
                 <<"", "api", "v1", "nodes", "foo", "proxy", "configz">>, "")
BarePath == ResourcePath(<<"", "version">>, <<"version">>, "")

SaveObjectLists ==
    { <<KubeletConfigPath("worker", "n1"), VersionPath>>,
      <<NodesPath, ConfigzPath>>,
      <<VersionPath, BarePath>> }

InitSave ==
    /\ resources \in SaveObjectLists
    /\ found = NilMap
    /\ pc = "idle"
    /\ idx = 1
    /\ results = EmptyMap
    /\ warnings = <<>>
    /\ trace = <<>>
    /\ ret = NoReturn
    /\ PersistIdle
    /\ WaitIdle
    /\ StreamIdle
    /\ dataStream = NoDoc
    /\ tailoring = NoDoc
    /\ nodeList = <<>>
    /\ lastRun = NoRun
    /\ call = NoCall

NextSave == FetchResourcesCall \/ FetchPath \/ FetchReturn \/ SaveResources

SpecSave == InitSave /\ [][NextSave]_vars

\* the object list the warnings are collected from
InitWarn ==
    /\ resources = <<PodsPath, KubeletConfigPath("worker", "n1")>>
    /\ found = NilMap
    /\ pc = "idle"
    /\ idx = 1
    /\ results = EmptyMap
    /\ warnings = <<>>
    /\ trace = <<>>
    /\ ret = NoReturn
    /\ PersistIdle
    /\ WaitIdle
    /\ StreamIdle
    /\ dataStream = NoDoc
    /\ tailoring = NoDoc
    /\ nodeList = <<>>
    /\ lastRun = NoRun
    /\ call = NoCall

NextWarn == FetchResourcesCall \/ FetchPath \/ FetchReturn \/ SaveWarningsIfAny

SpecWarn == InitWarn /\ [][NextWarn]_vars

\* getSaveDirectoryAndFileName applied to every DumpPath of up to MaxSegments
\* segments over these names
SegmentNames == {"", ".", "..", "a", "version"}

RECURSIVE PathsOfLen(_)
PathsOfLen(n) ==
    IF n = 0 THEN {<<>>}
    ELSE {Append(p, s) : p \in PathsOfLen(n - 1), s \in SegmentNames}

DumpPaths == UNION {PathsOfLen(n) : n \in 1..MaxSegments}

InitDest ==
    /\ call \in [done : {FALSE}, nil : {FALSE}, apiPath : DumpPaths,
                 dir : {<<"">>}, file : {""}, err : {NoErr}]
    /\ dataStream = NoDoc
    /\ tailoring = NoDoc
    /\ resources = <<>>
    /\ found = NilMap
    /\ nodeList = <<>>
    /\ lastRun = NoRun
    /\ pc = "idle"
    /\ idx = 1
    /\ results = EmptyMap
    /\ warnings = <<>>
    /\ trace = <<>>
    /\ ret = NoReturn
    /\ PersistIdle
    /\ WaitIdle
    /\ StreamIdle

GetSaveDirectoryAndFileNameCall ==
    /\ ~call.nil /\ ~call.done
    /\ LET r == getSaveDirectoryAndFileName(rootDir, call.apiPath)
       IN call' = [call EXCEPT !.done = TRUE, !.dir = r.dir, !.file = r.file, !.err = r.err]
    /\ UNCHANGED <<dataStream, tailoring, resources, nodeList, lastRun, fetchVars,
                   persistVars, waitVars, streamVars>>

NextDest == GetSaveDirectoryAndFileNameCall

SpecDest == InitDest /\ [][NextDest]_vars

-----------------------------------------------------------------------------
(* openNonEmptyFile: the polling goroutine, the channel, the deadline *)

\* seconds
contentFileTimeout == 3600

\* what the extraction step running beside the program may have made of the
\* file: not there, created and empty, written, or not openable
FileStates == {"absent", "empty", "content", "denied"}

\* fileinfo.Size()
Size(state) == IF state = "content" THEN 1 ELSE 0

\* os.Open: nil, os.IsNotExist, or another error
OpenErr(state) ==
    IF state = "absent" THEN "not exist"
    ELSE IF state = "denied" THEN "permission denied"
    ELSE NoErr

\* every file that could be opened is handed over
AnySize(size) == TRUE
\* line 140: fileinfo.Size() > 0
HasContents(size) == size > 0

Running == exited = "no"

\* the extraction step goes on
FileChanges ==
    /\ Running
    /\ \/ fileState = "absent" /\ fileState' \in {"empty", "content", "denied"}
       \/ fileState = "empty" /\ fileState' = "content"
    /\ UNCHANGED <<poller, readFileTimeoutChan, waiter, now, exited,
                   resources, fetchVars, discoveryVars, persistVars, streamVars>>

\* lines 135-146: one os.Open and file.Stat of the goroutine
Poll ==
    /\ Running
    /\ poller.pc = "open"
    /\ LET opens == IF waiter.pc = "returned" THEN poller.opens + 1 ELSE 0
       IN IF OpenErr(fileState) = NoErr
          THEN /\ poller' = IF HasContents(Size(fileState))
                            THEN [pc |-> "send", sleep |-> 0, size |-> Size(fileState),
                                  opens |-> opens]
                            ELSE [pc |-> "sleep", sleep |-> 1, size |-> 0, opens |-> opens]
               /\ UNCHANGED exited
          ELSE IF OpenErr(fileState) # "not exist"
          THEN /\ exited' = "open failed"
               /\ UNCHANGED poller
          ELSE /\ poller' = [pc |-> "sleep", sleep |-> 1, size |-> 0, opens |-> opens]
               /\ UNCHANGED exited
    /\ UNCHANGED <<fileState, readFileTimeoutChan, waiter, now,
                   resources, fetchVars, discoveryVars, persistVars, streamVars>>

\* a channel that buffers two files
RoomForTwo(chan) == Len(chan) < 2
\* line 126: make(chan *os.File, 1), a channel that buffers one file
HasRoom(chan) == Len(chan) < 1

\* line 141: readFileTimeoutChan <- file, which blocks while the buffer is full
Send ==
    /\ Running
    /\ poller.pc = "send"
    /\ HasRoom(readFileTimeoutChan)
    /\ readFileTimeoutChan' = Append(readFileTimeoutChan, [size |-> poller.size])
    /\ poller' = [pc |-> "sleep", sleep |-> 1, size |-> 0, opens |-> poller.opens]
    /\ UNCHANGED <<fileState, waiter, now, exited,
                   resources, fetchVars, discoveryVars, persistVars, streamVars>>

\* line 147: time.Sleep(1 * time.Second) is over
Wake ==
    /\ Running
    /\ poller.pc = "sleep" /\ poller.sleep = 0
    /\ poller' = [poller EXCEPT !.pc = "open"]
    /\ UNCHANGED <<fileState, readFileTimeoutChan, waiter, now, exited,
                   resources, fetchVars, discoveryVars, persistVars, streamVars>>

\* a second passes; the timer counts while the caller waits
Tick ==
    /\ Running
    /\ (waiter.pc = "select" /\ now < contentFileTimeout) \/ poller.sleep > 0
    /\ now' = IF waiter.pc = "select" /\ now < contentFileTimeout THEN now + 1 ELSE now
    /\ poller' = [poller EXCEPT !.sleep = IF @ > 0 THEN @ - 1 ELSE 0]
    /\ UNCHANGED <<fileState, readFileTimeoutChan, waiter, exited,
                   resources, fetchVars, discoveryVars, persistVars, streamVars>>

\* lines 152-154: the select receives a file and openNonEmptyFile returns it
Receive ==
    /\ Running
    /\ waiter.pc = "select"
    /\ readFileTimeoutChan # <<>>
    /\ waiter' = [pc |-> "returned", file |-> Head(readFileTimeoutChan), err |-> NoErr]
    /\ readFileTimeoutChan' = Tail(readFileTimeoutChan)
    /\ UNCHANGED <<fileState, poller, now, exited,
                   resources, fetchVars, discoveryVars, persistVars, streamVars>>

\* lines 155-157: time.After fires, "Timeout. Aborting.", os.Exit(1)
Timeout ==
    /\ Running
    /\ waiter.pc = "select"
    /\ now >= contentFileTimeout
    /\ exited' = "timeout"
    /\ UNCHANGED <<fileState, poller, readFileTimeoutChan, waiter, now,
                   resources, fetchVars, discoveryVars, persistVars, streamVars>>

\* openNonEmptyFile has made the channel, started the goroutine and armed
\* the timer
InitWait ==
    /\ fileState \in FileStates
    /\ poller = [pc |-> "open", sleep |-> 0, size |-> 0, opens |-> 0]
    /\ readFileTimeoutChan = <<>>
    /\ waiter = [pc |-> "select"]
    /\ now = 0
    /\ exited = "no"
    /\ PersistIdle
    /\ StreamIdle
    /\ dataStream = NoDoc
    /\ tailoring = NoDoc
    /\ resources = <<>>
    /\ found = NilMap
    /\ nodeList = <<>>
    /\ lastRun = NoRun
    /\ pc = "idle"
    /\ idx = 1
    /\ results = EmptyMap
    /\ warnings = <<>>
    /\ trace = <<>>
    /\ ret = NoReturn
    /\ call = NoCall

NextWait == FileChanges \/ Poll \/ Send \/ Wake \/ Tick \/ Receive \/ Timeout

SpecWait == InitWait /\ [][NextWait]_vars

-----------------------------------------------------------------------------
(* saveConsistentKubeletResult applied to the result maps of a pass over the
   nodes n1, n2, n3 of role worker, the node n1 of role master and /version *)

\* what fetch stores for a node whose kubelet answered with the config
StoredConfig(cfg) == filter(KubeletBody(cfg), KubeletFilter).out

Configs == {ConfigA, ConfigB, ConfigC}

\* the map with these entries; "none" leaves the key out
RECURSIVE MapOf(_)
MapOf(entries) ==
    IF entries = <<>> THEN EmptyMap
    ELSE IF Head(entries).v.fmt = "none" THEN MapOf(Tail(entries))
    ELSE Put(MapOf(Tail(entries)), Head(entries).k, Head(entries).v)

NoEntry == [fmt |-> "none"]

ResultMaps ==
    { MapOf(<< [k |-> <<"", "version">>, v |-> VersionBody],
               [k |-> KubeletConfigPath("worker", "n1").DumpPath, v |-> w1],
               [k |-> KubeletConfigPath("worker", "n2").DumpPath, v |-> w2],
               [k |-> KubeletConfigPath("worker", "n3").DumpPath, v |-> w3],
               [k |-> KubeletConfigPath("master", "n1").DumpPath, v |-> m1] >>) :
        w1 \in {StoredConfig(c) : c \in Configs},
        w2 \in {StoredConfig(c) : c \in Configs} \cup {NoEntry},
        w3 \in {StoredConfig(c) : c \in Configs} \cup {NoEntry},
        m1 \in {StoredConfig(ConfigA), NoEntry} }

InitReconcile ==
    /\ call \in [done : {FALSE}, nil : {FALSE}, result : ResultMaps,
                 out : {NilMap}, warnings : {<<>>}, err : {NoErr}]
    /\ dataStream = NoDoc
    /\ tailoring = NoDoc
    /\ resources = <<>>
    /\ found = NilMap
    /\ nodeList = <<>>
    /\ lastRun = NoRun
    /\ pc = "idle"
    /\ idx = 1
    /\ results = EmptyMap
    /\ warnings = <<>>
    /\ trace = <<>>
    /\ ret = NoReturn
    /\ PersistIdle
    /\ WaitIdle
    /\ StreamIdle

SaveConsistentKubeletResultCall ==
    /\ ~call.nil /\ ~call.done
    /\ \E order \in Orders(DOMAIN call.result) :
         LET r == saveConsistentKubeletResult(call.result, <<>>, order)
         IN call' = [call EXCEPT !.done = TRUE,
                                 !.out = [nil |-> r.nil, m |-> r.results],
                                 !.warnings = r.warnings,
                                 !.err = r.err]
    /\ UNCHANGED <<dataStream, tailoring, resources, nodeList, lastRun, fetchVars,
                   persistVars, waitVars, streamVars>>

NextReconcile == SaveConsistentKubeletResultCall

SpecReconcile == InitReconcile /\ [][NextReconcile]_vars

-----------------------------------------------------------------------------
(* mcStreamer.Stream: the MachineConfigs, listed page by page *)

\* line 478
pageSize == 5

MachineConfig(name, raw) == [name |-> name, raw |-> raw]

\* the MachineConfigs of the cluster: one without a config, one whose
\* Ignition config (a version and a storage) has files, one whose config has
\* no files, one whose config does not parse
MachineConfigs ==
    { MachineConfig("00-plain", EmptyBody),
      MachineConfig("01-files",
          [fmt |-> "pretty",
           val |-> [ignition |-> "3.2.0",
                    storage |-> [files |-> <<"f1", "f2">>, disks |-> <<"d">>]]]),
      MachineConfig("02-nofiles",
          [fmt |-> "pretty",
           val |-> [ignition |-> "3.2.0", storage |-> [disks |-> <<"d">>]]]),
      MachineConfig("03-broken", GarbageBody) }

\* the Items of one page: no more than the Limit asked for
PageItems ==
    {<<>>} \cup {<<a>> : a \in MachineConfigs}
           \cup {<<a, b>> : a \in MachineConfigs, b \in MachineConfigs}

\* a continuation token: "" is <<>>, the token after n pages is <<n>>
NoToken == <<>>
TokenAfter(n) == <<n>>

ListOptions(token) == [Limit |-> pageSize, Continue |-> token]

\* what client.List may answer: an error, or a page and the token of the next
ListAnswers(opts, n) ==
    {[err |-> TRUE, Items |-> <<>>, Continue |-> NoToken]}
      \cup {[err |-> FALSE, Items |-> items, Continue |-> token] :
               items \in {p \in PageItems : Len(p) <= opts.Limit},
               token \in {NoToken, TokenAfter(n)}}

\* mcfgcommon.ParseAndConvertConfig: the config, or an error for bytes that
\* are not an Ignition config
ParseAndConvertConfig(raw) ==
    IF IsJSON(raw) /\ "ignition" \in DOMAIN raw.val
    THEN [err |-> FALSE, ign |-> raw.val]
    ELSE [err |-> TRUE, ign |-> EmptyMap]

\* the files stay in the config
KeepFiles(ign) == ign
\* line 530: ign.Storage.Files = nil, a member json.Marshal then leaves out
StripFiles(ign) ==
    [ign EXCEPT !.storage = [k \in (DOMAIN ign.storage) \ {"files"} |-> ign.storage[k]]]

\* lines 522-538, on mcListIn.Items: the items of a page, each config parsed
\* and written back without its files; the first config that does not parse
\* is the error
RECURSIVE filterMcList(_)
filterMcList(items) ==
    IF items = <<>> THEN [err |-> FALSE, Items |-> <<>>]
    ELSE LET mc == Head(items)
             parsed == ParseAndConvertConfig(mc.raw)
         IN IF ~NoData(mc.raw) /\ parsed.err
            THEN [err |-> TRUE, Items |-> <<>>]
            ELSE LET rest == filterMcList(Tail(items))
                     out == IF NoData(mc.raw) THEN mc
                            ELSE [mc EXCEPT !.raw = Marshal(StripFiles(parsed.ign))]
                 IN IF rest.err THEN rest
                    ELSE [err |-> FALSE, Items |-> <<out>> \o rest.Items]

\* jsonSerializer.Encode with Pretty: true
Encode(items) == [fmt |-> "pretty", val |-> [items |-> items]]

NoBuf == [fmt |-> "none"]

\* Stream is called: lines 477-480
StreamCall ==
    /\ stream.pc \in {"none", "returned"}
    /\ stream' = [pc |-> "list", encodes |-> 0]
    /\ continueToken' = NoToken
    /\ mcfgListNoFiles' = <<>>
    /\ listed' = <<>>
    /\ UNCHANGED <<resources, fetchVars, discoveryVars, persistVars, waitVars>>

\* lines 482-503: one iteration of the loop
ListPage ==
    /\ stream.pc = "list"
    /\ Len(listed) < MaxPages
    /\ LET listOpts == ListOptions(continueToken)
       IN \E mcfgList \in ListAnswers(listOpts, Len(listed) + 1) :
            LET batch == filterMcList(mcfgList.Items)
            IN /\ listed' = Append(listed, [opts |-> listOpts, answer |-> mcfgList])
               /\ IF mcfgList.err
                  THEN /\ stream' = [pc |-> "returned", encodes |-> stream.encodes, buf |-> NoBuf,
                                     err |-> "failed to list MachineConfigs"]
                       /\ UNCHANGED <<continueToken, mcfgListNoFiles>>
                  ELSE IF batch.err
                  THEN /\ stream' = [pc |-> "returned", encodes |-> stream.encodes, buf |-> NoBuf,
                                     err |-> "failed to filter machine configs"]
                       /\ UNCHANGED <<continueToken, mcfgListNoFiles>>
                  ELSE /\ mcfgListNoFiles' = mcfgListNoFiles \o batch.Items
                       /\ continueToken' = mcfgList.Continue
                       /\ stream' = [stream EXCEPT !.pc = IF mcfgList.Continue = NoToken
                                                          THEN "encode" ELSE "list"]
    /\ UNCHANGED <<resources, fetchVars, discoveryVars, persistVars, waitVars>>

\* lines 506-514: the list is serialized and returned, unless Encode fails
EncodeList ==
    /\ stream.pc = "encode"
    /\ \/ stream' = [pc |-> "returned", encodes |-> stream.encodes + 1,
                     buf |-> Encode(mcfgListNoFiles), err |-> NoErr]
       \/ stream' = [pc |-> "returned", encodes |-> stream.encodes + 1,
                     buf |-> NoBuf, err |-> "failed to serialize MC list"]
    /\ UNCHANGED <<continueToken, mcfgListNoFiles, listed,
                   resources, fetchVars, discoveryVars, persistVars, waitVars>>

InitStream ==
    /\ StreamIdle
    /\ dataStream = NoDoc
    /\ tailoring = NoDoc
    /\ resources = <<>>
    /\ found = NilMap
    /\ nodeList = <<>>
    /\ lastRun = NoRun
    /\ pc = "idle"
    /\ idx = 1
    /\ results = EmptyMap
    /\ warnings = <<>>
    /\ trace = <<>>
    /\ ret = NoReturn
    /\ call = NoCall
    /\ PersistIdle
    /\ WaitIdle

NextStream == StreamCall \/ ListPage \/ EncodeList

SpecStream == InitStream /\ [][NextStream]_vars

-----------------------------------------------------------------------------
(* Documents *)

valuePrefix == "xccdf_org.ssgproject.content_value_"
nodeRolePrefix == "node-role.kubernetes.io/"

\* an id attribute, split at the end of the prefix it starts with
Id(prefix, name) == [prefix |-> prefix, name |-> name]
ValueId(name) == Id(valuePrefix, name)

\* html.UnescapeString
HtmlUnescape(text) == IF text = "&lt;none&gt;" THEN "<none>" ELSE text

RECURSIVE Flatten(_)
Flatten(ss) == IF ss = <<>> THEN <<>> ELSE Head(ss) \o Flatten(Tail(ss))

\* lines 305-316: the assignments the value children of one Value element make
ValueAssignments(variable) ==
    LET vals == SelectSeq(variable.values,
                          LAMBDA val : /\ ~val.hidden
                                       /\ val.selector = ""
                                       /\ variable.id.prefix = valuePrefix)
    IN [i \in 1..Len(vals) |-> [k |-> variable.id.name, v |-> HtmlUnescape(vals[i].text)]]

\* xmlquery.Find(def, "//xccdf-1.2:set-value"): every set-value of the
\* document, in document order
AllSetValues(def) == Flatten([i \in 1..Len(def.Profiles) |-> def.Profiles[i].setValues])

\* lines 318-323
SetValueAssignments(def) ==
    LET svs == SelectSeq(AllSetValues(def), LAMBDA sv : sv.idref.prefix = valuePrefix)
    IN [i \in 1..Len(svs) |-> [k |-> svs[i].idref.name, v |-> HtmlUnescape(svs[i].text)]]

Assignments(def) ==
    Flatten([i \in 1..Len(def.Values) |-> ValueAssignments(def.Values[i])])
      \o SetValueAssignments(def)

RECURSIVE Assign(_, _)
Assign(table, as) ==
    IF as = <<>> THEN table
    ELSE Assign(Put(table, Head(as).k, Head(as).v), Tail(as))

\* lines 299-324: the variables of the rule definitions, then of the profile
\* definitions; later assignments win
collectValues(ruleDefs, profileDefs) ==
    Assign(EmptyMap, Assignments(ruleDefs) \o Assignments(profileDefs))

\* an override that also inserts the ids only it has
overrideAndInsert(valuesList, override) ==
    IF override.nil THEN valuesList
    ELSE [k \in (DOMAIN valuesList) \cup (DOMAIN override.m) |->
             IF k \in DOMAIN override.m THEN override.m[k] ELSE valuesList[k]]
\* lines 326-333
overrideValues(valuesList, override) ==
    IF override.nil THEN valuesList
    ELSE [k \in DOMAIN valuesList |->
             IF k \in DOMAIN override.m THEN override.m[k] ELSE valuesList[k]]

\* the profiles of the name and the profiles those extend
profilesFollowed(profileDefs, profile) ==
    SelectSeq(profileDefs.Profiles,
              LAMBDA node : \/ node.id = profile
                            \/ \E i \in DOMAIN profileDefs.Profiles :
                                  /\ profileDefs.Profiles[i].id = profile
                                  /\ profileDefs.Profiles[i].extends = node.id)
\* lines 341-345: the profiles whose id is the name asked for
profilesSearched(profileDefs, profile) ==
    SelectSeq(profileDefs.Profiles, LAMBDA node : node.id = profile)

\* lines 341-358: the idrefs the profile selects, in document order
selectedChecksOf(profileDefs, profile) ==
    LET nodes == profilesSearched(profileDefs, profile)
        checksOf(node) ==
            LET sel == SelectSeq(node.selects,
                                 LAMBDA check : check.selected = "true" /\ check.idref # "")
            IN [i \in 1..Len(sel) |-> sel[i].idref]
    IN Flatten([i \in 1..Len(nodes) |-> checksOf(nodes[i])])

\* utils.GetPathFromWarningXML: the path directives of the annotation with
\* the variables substituted; nothing when a variable is not in the table
GetPathFromWarningXML(warn, valueList) ==
    IF \E i \in DOMAIN warn.paths :
          warn.paths[i].var # "" /\ warn.paths[i].var \notin DOMAIN valueList
    THEN <<>>
    ELSE [i \in DOMAIN warn.paths |->
            LET t == warn.paths[i]
                uri == IF t.var = "" THEN t.base ELSE t.base \o <<valueList[t.var]>>
            IN ResourcePath(uri, uri, t.filter)]

\* the paths of every annotation of the rule
everyWarningPaths(warningObjs, valuesList) ==
    Flatten([i \in 1..Len(warningObjs) |-> GetPathFromWarningXML(warningObjs[i], valuesList)])
\* lines 381-396: the paths of the first annotation that yields any
RECURSIVE firstWarningPaths(_, _)
firstWarningPaths(warningObjs, valuesList) ==
    IF warningObjs = <<>> THEN <<>>
    ELSE LET apiPaths == GetPathFromWarningXML(Head(warningObjs), valuesList)
         IN IF Len(apiPaths) = 0
            THEN firstWarningPaths(Tail(warningObjs), valuesList)
            ELSE apiPaths

\* a selected check without a Rule ends the extraction
notFoundEnds(rest) == <<>>
\* lines 376-379: a selected check without a Rule is passed over
notFound(rest) == rest

\* lines 367-403
RECURSIVE pathsOfChecks(_, _, _)
pathsOfChecks(selectedChecks, checkDefinitions, valuesList) ==
    IF selectedChecks = <<>> THEN <<>>
    ELSE LET checkID == Head(selectedChecks)
             rules == SelectSeq(checkDefinitions, LAMBDA rule : rule.id = checkID)
             rest == pathsOfChecks(Tail(selectedChecks), checkDefinitions, valuesList)
         IN IF rules = <<>> THEN notFound(rest)
            ELSE firstWarningPaths(rules[1].warnings, valuesList) \o rest

getResourcePaths(profileDefs, ruleDefs, profile, overrideValueList) ==
    LET valuesList == overrideValues(collectValues(ruleDefs, profileDefs), overrideValueList)
        selectedChecks == selectedChecksOf(profileDefs, profile)
    IN [out |-> IF Len(ruleDefs.Rules) = 0 THEN <<>>
                ELSE pathsOfChecks(selectedChecks, ruleDefs.Rules, valuesList),
        valuesList |-> valuesList]

\* a tailoring profile is never taken to extend anything
neverExtends(ds, tailoredProfile) == ""
getExtendedProfileFromTailoring(ds, tailoredProfile) ==
    LET ext == SelectSeq(ds.Profiles,
                         LAMBDA node : node.id = tailoredProfile /\ node.extends # "")
    IN IF ext = <<>> THEN "" ELSE ext[1].extends

-----------------------------------------------------------------------------
(* Nodes and roles *)

\* utils.GetNodeRoles: the roles the labels of a node give it
GetNodeRoles(labels) == {l.name : l \in {x \in labels : x.prefix = nodeRolePrefix}}

\* lines 249-258: role -> the names of its nodes, in the order of the list
fetchNodesWithRole(items) ==
    LET roles == UNION {GetNodeRoles(items[i].labels) : i \in DOMAIN items}
    IN [role \in roles |->
          LET mine == SelectSeq(items, LAMBDA node : role \in GetNodeRoles(node.labels))
          IN [i \in 1..Len(mine) |-> mine[i].name]]

\* order: the order in which the range loop visits the roles
getKubeletConfigResourcePath(roleNodesList, order) ==
    Flatten([r \in 1..Len(order) |->
               [n \in 1..Len(roleNodesList[order[r]]) |->
                   KubeletConfigPath(order[r], roleNodesList[order[r]][n])]])

Plain(segs) == ResourcePath(segs, segs, "")

\* lines 166-187
FixedPaths ==
    << Plain(<<"", "version">>),
       Plain(<<"", "apis", "config.openshift.io", "v1", "clusteroperators", "openshift-apiserver">>),
       Plain(<<"", "apis", "config.openshift.io", "v1", "infrastructures", "cluster">>),
       Plain(<<"", "apis", "config.openshift.io", "v1", "networks", "cluster">>),
       Plain(<<"", "api", "v1", "nodes">>) >>

\* the kubelet paths are added only when there are several roles
SeveralRoles(roleNodesList) == Cardinality(DOMAIN roleNodesList) > 1
\* line 195: len(roleNodesList) > 0
HasRoles(roleNodesList) == Cardinality(DOMAIN roleNodesList) > 0

\* without an extension the search goes on with the profile asked for
keepProfile(profile, extended) == IF extended = "" THEN profile ELSE extended
\* line 210: effectiveProfile is overwritten with the extended profile
overwriteProfile(profile, extended) == extended

\* FigureResources after the node list was fetched; order is the order in
\* which the roles are visited.  Beside c.resources it reports the variable
\* tables the two calls of getResourcePaths worked with.
figureResources(profile, ds, tl, items, order) ==
    LET roleNodesList == fetchNodesWithRole(items)
        base == IF HasRoles(roleNodesList)
                THEN FixedPaths \o getKubeletConfigResourcePath(roleNodesList, order)
                ELSE FixedPaths
        fromTailoring == getResourcePaths(tl, ds, profile, NilMap)
        extended == getExtendedProfileFromTailoring(tl, profile)
        valuesList == IF tl.nil THEN NilMap
                      ELSE [nil |-> FALSE, m |-> fromTailoring.valuesList]
        withTailoring == IF tl.nil THEN base ELSE base \o fromTailoring.out
        effectiveProfile == IF tl.nil THEN profile ELSE overwriteProfile(profile, extended)
        fromProfile == getResourcePaths(ds, ds, effectiveProfile, valuesList)
    IN IF ~tl.nil /\ effectiveProfile = ""
       THEN [resources |-> withTailoring, tailoringValues |-> valuesList,
             profileValues |-> NilMap]
       ELSE [resources |-> withTailoring \o fromProfile.out,
             tailoringValues |-> valuesList,
             profileValues |-> [nil |-> FALSE, m |-> fromProfile.valuesList]]

-----------------------------------------------------------------------------
(* The documents, node lists and profile names discovery is run with *)

Value(hidden, selector, text) == [hidden |-> hidden, selector |-> selector, text |-> text]
ValueElem(id, values) == [id |-> id, values |-> values]
SetValue(idref, text) == [idref |-> idref, text |-> text]
Select(idref, selected) == [idref |-> idref, selected |-> selected]
Profile(id, extends, selects, setValues) ==
    [id |-> id, extends |-> extends, selects |-> selects, setValues |-> setValues]
Directive(base, var, fltr) == [base |-> base, var |-> var, filter |-> fltr]
Warning(paths) == [paths |-> paths]
Rule(id, warningObjs) == [id |-> id, warnings |-> warningObjs]
Doc(values, profiles, rules) ==
    [nil |-> FALSE, Values |-> values, Profiles |-> profiles, Rules |-> rules]

Rules1 ==
    << Rule("r1", <<Warning(<<Directive(<<"", "apis", "oauths">>, "A", "")>>)>>),
       Rule("r2", <<Warning(<<Directive(<<"", "api", "v1", "secrets">>, "", "")>>)>>),
       Rule("r3", <<Warning(<<>>),
                    Warning(<<Directive(<<"", "api", "v1", "pods">>, "", ".items[]")>>),
                    Warning(<<Directive(<<"", "api", "v1", "services">>, "", "")>>)>>),
       Rule("r4", <<Warning(<<Directive(<<"", "apis", "routes">>, "C", ""),
                              Directive(<<"", "apis", "ingresses">>, "", ".")>>)>>),
       Rule("r5", <<Warning(<<Directive(<<"", "apis", "limits">>, "B", "")>>)>>),
       Rule("r6", <<>>) >>

\* a benchmark: variables A (default 1, and an enum choice), H (hidden),
\* E (escaped text), O (an id without the value prefix), and C, which only
\* a set-value of profile Q gives a value
Benchmark1 ==
    Doc(<< ValueElem(ValueId("A"), <<Value(FALSE, "", "1"), Value(FALSE, "large", "9")>>),
           ValueElem(ValueId("H"), <<Value(TRUE, "", "h")>>),
           ValueElem(ValueId("E"), <<Value(FALSE, "", "&lt;none&gt;")>>),
           ValueElem(Id("other_", "O"), <<Value(FALSE, "", "o")>>) >>,
        << Profile("P", "Q", <<Select("r1", "true"), Select("r2", "false"),
                               Select("rX", "true"), Select("", "true"),
                               Select("r6", "true"), Select("r3", "true")>>, <<>>),
           Profile("Q", "", <<Select("r4", "true")>>, <<SetValue(ValueId("C"), "5")>>) >>,
        Rules1)

\* the benchmark whose only variable is A = 1
Benchmark2 ==
    Doc(<< ValueElem(ValueId("A"), <<Value(FALSE, "", "1")>>) >>,
        << Profile("P", "", <<Select("r1", "true")>>, <<>>) >>,
        << Rule("r1", <<Warning(<<Directive(<<"", "apis", "oauths">>, "A", "")>>)>>) >>)

\* T extends P and selects nothing itself; it sets A and the new id B
Tailoring1 ==
    Doc(<<>>,
        << Profile("T", "P", <<Select("r2", "false")>>,
                   <<SetValue(ValueId("A"), "2"), SetValue(ValueId("B"), "3")>>) >>,
        <<>>)

\* T extends nothing and selects r4 and r5
Tailoring2 ==
    Doc(<<>>,
        << Profile("T", "", <<Select("r4", "true"), Select("r5", "true")>>,
                   <<SetValue(ValueId("B"), "3")>>) >>,
        <<>>)

\* T extends P and selects r2 itself
Tailoring3 ==
    Doc(<<>>,
        << Profile("T", "P", <<Select("r2", "true")>>, <<SetValue(ValueId("A"), "2")>>) >>,
        <<>>)

BenchmarkDocs == {Benchmark1, Benchmark2}
TailoringDocs == {Tailoring1, Tailoring2, Tailoring3}
ProfileNames == {"P", "Q", "T", "X"}

Label(prefix, name) == [prefix |-> prefix, name |-> name]
Node(name, roles) ==
    [name |-> name,
     labels |-> {Label(nodeRolePrefix, r) : r \in roles} \cup {Label("kubernetes.io/", "os")}]

NodeLists ==
    { <<>>,
      <<Node("n1", {"worker"}), Node("n2", {})>>,
      <<Node("n1", {"master", "worker"}), Node("n2", {"worker"})>> }

OverrideTables ==
    { NilMap,
      [nil |-> FALSE, m |-> EmptyMap],
      [nil |-> FALSE, m |-> [A |-> "2"]],
      [nil |-> FALSE, m |-> [B |-> "3"]],
      [nil |-> FALSE, m |-> [A |-> "2", B |-> "3"]],
      [nil |-> FALSE, m |-> [C |-> "7", E |-> "e"]] }

-----------------------------------------------------------------------------
(* Discovery *)

Init ==
    /\ dataStream = NoDoc
    /\ tailoring = NoDoc
    /\ resources = <<>>
    /\ found = NilMap
    /\ nodeList \in NodeLists
    /\ lastRun = NoRun
    /\ pc = "idle"
    /\ idx = 1
    /\ results = EmptyMap
    /\ warnings = <<>>
    /\ trace = <<>>
    /\ ret = NoReturn
    /\ call = NoCall
    /\ PersistIdle
    /\ WaitIdle
    /\ StreamIdle

LoadSource ==
    /\ \E xml \in BenchmarkDocs : dataStream' = xml
    /\ UNCHANGED <<tailoring, resources, nodeList, lastRun, call, fetchVars, persistVars, waitVars, streamVars>>

LoadTailoring ==
    /\ \E xml \in TailoringDocs : tailoring' = xml
    /\ UNCHANGED <<dataStream, resources, nodeList, lastRun, call, fetchVars, persistVars, waitVars, streamVars>>

Run(profile, err, out) ==
    [nil |-> FALSE, profile |-> profile, dataStream |-> dataStream, tailoring |-> tailoring,
     nodeList |-> nodeList, err |-> err, out |-> out]

NoOutput == [resources |-> <<>>, tailoringValues |-> NilMap, profileValues |-> NilMap]

FigureResources ==
    /\ ~dataStream.nil
    /\ \E profile \in ProfileNames :
         \/ \* c.client.List fails
            /\ lastRun' = (Run(profile, "failed to list nodes", NoOutput))
            /\ UNCHANGED resources
         \/ \E order \in Orders(DOMAIN fetchNodesWithRole(nodeList)) :
              LET out == figureResources(profile, dataStream, tailoring, nodeList, order)
              IN /\ resources' = out.resources
                 /\ lastRun' = (Run(profile, NoErr, out))
    /\ UNCHANGED <<dataStream, tailoring, nodeList, call, fetchVars, persistVars, waitVars, streamVars>>

Next == LoadSource \/ LoadTailoring \/ FigureResources

Spec == Init /\ [][Next]_vars

-----------------------------------------------------------------------------
(* getResourcePaths applied to arguments of its caller's choice *)

InitPaths ==
    /\ call \in [done : {FALSE}, nil : {FALSE},
                 profileDefs : BenchmarkDocs \cup TailoringDocs,
                 ruleDefs : BenchmarkDocs,
                 profile : ProfileNames,
                 overrideValueList : OverrideTables,
                 out : {<<>>}, valuesList : {EmptyMap}]
    /\ dataStream = NoDoc
    /\ tailoring = NoDoc
    /\ resources = <<>>
    /\ found = NilMap
    /\ nodeList = <<>>
    /\ lastRun = NoRun
    /\ pc = "idle"
    /\ idx = 1
    /\ results = EmptyMap
    /\ warnings = <<>>
    /\ trace = <<>>
    /\ ret = NoReturn
    /\ PersistIdle
    /\ WaitIdle
    /\ StreamIdle

GetResourcePathsCall ==
    /\ ~call.nil /\ ~call.done
    /\ LET r == getResourcePaths(call.profileDefs, call.ruleDefs, call.profile,
                                 call.overrideValueList)
       IN call' = [call EXCEPT !.done = TRUE, !.out = r.out, !.valuesList = r.valuesList]
    /\ UNCHANGED <<dataStream, tailoring, resources, nodeList, lastRun, fetchVars, persistVars, waitVars, streamVars>>

NextPaths == GetResourcePathsCall

SpecPaths == InitPaths /\ [][NextPaths]_vars

-----------------------------------------------------------------------------
(* Discovery claims *)

RanOK == ~lastRun.nil /\ lastRun.err = NoErr

SameInputs(r1, r2) ==
    /\ r1.profile = r2.profile
    /\ r1.dataStream = r2.dataStream
    /\ r1.tailoring = r2.tailoring
    /\ r1.nodeList = r2.nodeList

\* C3: two runs of FigureResources with the same profile, documents and
\* node list produce the same sequence of ResourcePaths, in the same order,
\* and the same variable tables.
C3_DiscoveryDeterministic ==
    [][ (/\ ~lastRun.nil /\ lastRun.err = NoErr
         /\ ~lastRun'.nil /\ lastRun'.err = NoErr
         /\ SameInputs(lastRun, lastRun')) =>
            /\ resources' = resources
            /\ lastRun'.out.tailoringValues = lastRun.out.tailoringValues
            /\ lastRun'.out.profileValues = lastRun.out.profileValues ]_vars

\* the (role, node) pairs of the node-role index
RoleNodePairs(items) ==
    UNION { {<<l.name, items[i].name>> :
                l \in {x \in items[i].labels : x.prefix = nodeRolePrefix}} :
            i \in DOMAIN items }

IsKubeletPath(rp) == Len(rp.DumpPath) >= 2 /\ SubSeq(rp.DumpPath, 1, 2) = <<"", "kubeletconfig">>

\* C4: after every run that returned no error, whatever the profile name and
\* with or without tailoring, c.resources holds the fixed paths (/version
\* among them) and exactly one kubelet-config path per (role, node) pair,
\* with the configz ObjPath, the /kubeletconfig/<role>/<node> DumpPath and
\* the canonical filter.
C4_FixedAndKubeletPaths ==
    RanOK =>
        /\ \E j \in DOMAIN resources :
              resources[j] = [ObjPath |-> <<"", "version">>,
                              DumpPath |-> <<"", "version">>, Filter |-> ""]
        /\ \A f \in DOMAIN FixedPaths : \E j \in DOMAIN resources : resources[j] = FixedPaths[f]
        /\ \A pair \in RoleNodePairs(nodeList) :
              Cardinality({j \in DOMAIN resources :
                  resources[j] =
                     [ObjPath |-> <<"", "api", "v1", "nodes", pair[2], "proxy", "configz">>,
                      DumpPath |-> <<"", "kubeletconfig", pair[1], pair[2]>>,
                      Filter |-> KubeletFilter]}) = 1
        /\ Cardinality({j \in DOMAIN resources : IsKubeletPath(resources[j])})
              = Cardinality(RoleNodePairs(nodeList))

C4_Witness ==
    /\ RanOK
    /\ lastRun.profile = "X"
    /\ ~lastRun.tailoring.nil
    /\ Cardinality(RoleNodePairs(nodeList)) = 1
    /\ Len(resources) = 6
    /\ resources[6].DumpPath = <<"", "kubeletconfig", "worker", "n1">>

\* C5: the override table changes the value of every id that the table
\* built from the documents has too, leaves the other ids of that table
\* alone and adds no id: {A:1} with overrides {A:2, B:3} gives {A:2}.
C5_OverrideLaw ==
    (~call.nil /\ call.done /\ ~call.overrideValueList.nil) =>
        LET built == collectValues(call.ruleDefs, call.profileDefs)
            over == call.overrideValueList.m
        IN /\ DOMAIN call.valuesList = DOMAIN built
           /\ \A k \in DOMAIN built :
                 call.valuesList[k] = IF k \in DOMAIN over THEN over[k] ELSE built[k]
           /\ (built = [A |-> "1"] /\ over = [A |-> "2", B |-> "3"])
                 => call.valuesList = [A |-> "2"]

C5_Witness ==
    /\ ~call.nil /\ call.done /\ ~call.overrideValueList.nil
    /\ collectValues(call.ruleDefs, call.profileDefs) = [A |-> "1"]
    /\ call.overrideValueList.m = [A |-> "2", B |-> "3"]
    /\ call.valuesList = [A |-> "2"]
    /\ Len(call.out) = 1
    /\ call.out[1].ObjPath = <<"", "apis", "oauths", "2">>

ProfilesNamed(doc, id) == {i \in DOMAIN doc.Profiles : doc.Profiles[i].id = id}

\* the tailoring profile of the last run extends a profile and selects no
\* check itself
ExtendsOnly ==
    /\ RanOK
    /\ ~lastRun.tailoring.nil
    /\ Cardinality(ProfilesNamed(lastRun.tailoring, lastRun.profile)) = 1
    /\ LET t == lastRun.tailoring.Profiles[
                   CHOOSE i \in ProfilesNamed(lastRun.tailoring, lastRun.profile) : TRUE]
       IN /\ t.extends # ""
          /\ \A i \in DOMAIN t.selects : t.selects[i].selected # "true"

ExtendedProfile ==
    lastRun.tailoring.Profiles[
        CHOOSE i \in ProfilesNamed(lastRun.tailoring, lastRun.profile) : TRUE].extends

\* the benchmark's table with the values the tailoring document provides
\* for the ids the benchmark has
MergedTable ==
    LET bench == collectValues(lastRun.dataStream, lastRun.dataStream)
        tail == collectValues(lastRun.tailoring, lastRun.tailoring)
    IN [k \in DOMAIN bench |-> IF k \in DOMAIN tail THEN tail[k] ELSE bench[k]]

ExtendedPaths ==
    IF Len(lastRun.dataStream.Rules) = 0 THEN <<>>
    ELSE pathsOfChecks(selectedChecksOf(lastRun.dataStream, ExtendedProfile),
                       lastRun.dataStream.Rules, MergedTable)

\* C6: when the tailoring profile extends P and selects nothing itself,
\* c.resources is the fixed paths, the per-(role,node) paths, and then
\* exactly the paths of the rules P selects in the benchmark, extracted with
\* the benchmark's variable table overwritten by the tailoring's values.
C6_ExtensionFallback ==
    ExtendsOnly =>
        LET n == Len(FixedPaths) + Cardinality(RoleNodePairs(nodeList))
        IN /\ Len(resources) = n + Len(ExtendedPaths)
           /\ \A j \in 1..n :
                 resources[j] \in {FixedPaths[f] : f \in DOMAIN FixedPaths}
                   \/ IsKubeletPath(resources[j])
           /\ SubSeq(resources, n + 1, Len(resources)) = ExtendedPaths
           /\ ~lastRun.out.profileValues.nil
           /\ lastRun.out.profileValues.m = MergedTable

C6_Witness ==
    /\ ExtendsOnly
    /\ lastRun.profile = "T" /\ ExtendedProfile = "P"
    /\ Len(ExtendedPaths) = 2
    /\ resources[Len(resources) - 1].ObjPath = <<"", "apis", "oauths", "2">>
    /\ resources[Len(resources)].Filter = ".items[]"
    /\ "B" \notin DOMAIN lastRun.out.profileValues.m
    /\ Cardinality(RoleNodePairs(nodeList)) = 3

-----------------------------------------------------------------------------
(* Vocabulary of the fetch claims *)

PassDone == pc = "idle" /\ ret.called
PassOK == PassDone /\ ret.err = NoErr

\* the step that has just streamed path idx
Streamed == pc = "loop" /\ Len(trace') = Len(trace) + 1
Answer == trace'[Len(trace')]
Current == resources[idx]

\* the bytes a successfully streamed path is expected to leave at its DumpPath
Expected(i) ==
    IF resources[i].Filter = "" THEN trace[i].body
    ELSE Marshal(RunFilter(resources[i].Filter, trace[i].body.val).vals[1])

FetchedSuccessfully(i) ==
    /\ trace[i].kind = "ok"
    /\ IsJSON(trace[i].body)
    /\ resources[i].Filter # "" =>
          LET it == RunFilter(resources[i].Filter, trace[i].body.val)
          IN ~it.err /\ Len(it.vals) >= 1

OnlyNotFound(i) ==
    /\ Len(trace) = Len(resources)
    /\ trace[i].kind = "notfound"
    /\ \A j \in DOMAIN trace : j # i => FetchedSuccessfully(j)

WarningsFor(uri) ==
    {k \in DOMAIN ret.warnings :
        ret.warnings[k].w = "could not fetch" /\ ret.warnings[k].uri = uri}

\* C1: when exactly one path of the list answers not-found and every other
\* path is fetched successfully, fetch returns no error, the result map
\* holds the content of every other path and the error marker at the
\* not-found path's DumpPath, and there is exactly one warning for that path.
C1_FetchIsolation ==
    \A i \in DOMAIN resources :
        (PassDone /\ Len(trace) = Len(resources) /\ OnlyNotFound(i)) =>
            /\ ret.err = NoErr
            /\ ~found.nil
            /\ \A j \in DOMAIN resources :
                  /\ resources[j].DumpPath \in DOMAIN found.m
                  /\ found.m[resources[j].DumpPath] =
                        IF j = i THEN ErrorMarker("NotFound") ELSE Expected(j)
            /\ Cardinality(WarningsFor(resources[i].ObjPath)) = 1

RoleOf(i) == getRoleNodeNameFromDumpPath(resources[i].DumpPath).role
NodeOf(i) == getRoleNodeNameFromDumpPath(resources[i].DumpPath).node
EntriesOf(role) == {i \in DOMAIN resources : RoleOf(i) = role}
RolesOf(rs) == {getRoleNodeNameFromDumpPath(rs[i].DumpPath).role : i \in DOMAIN rs} \ {""}

\* node d of the role differs, every other node of the role agrees
OneDiffers(role, d) ==
    /\ Len(trace) = Len(resources)
    /\ \A i \in DOMAIN trace : FetchedSuccessfully(i)
    /\ Cardinality(EntriesOf(role)) >= 3
    /\ d \in EntriesOf(role)
    /\ \A i, j \in EntriesOf(role) \ {d} : trace[i].body.val = trace[j].body.val
    /\ \A i \in EntriesOf(role) \ {d} : trace[i].body.val # trace[d].body.val

DivergenceWarnings(role) ==
    {k \in DOMAIN ret.warnings :
        ret.warnings[k].w = "Kubelet configs are not consistent"
          /\ ret.warnings[k].role = role}

CommonOf(a, b) == {k \in (DOMAIN a) \cap (DOMAIN b) : a[k] = b[k]}

\* C2: when all nodes of a role report the same config but one, whatever the
\* order of the visit, the role-level key holds the intersection and exactly
\* one warning is appended, which names the differing node.
C2_OneDivergenceWarning ==
    \A role \in RolesOf(resources) : \A d \in EntriesOf(role) :
        (PassDone /\ Len(trace) = Len(resources) /\ OneDiffers(role, d)) =>
            /\ ret.err = NoErr
            /\ LET key == kubeletConfigRolePathPrefix \o <<role>>
                   a == Expected(d).val
                   b == Expected(CHOOSE i \in EntriesOf(role) : i # d).val
               IN /\ key \in DOMAIN found.m
                  /\ IsJSON(found.m[key])
                  /\ DOMAIN found.m[key].val = CommonOf(a, b)
                  /\ \A k \in CommonOf(a, b) : found.m[key].val[k] = a[k]
            /\ Cardinality(DivergenceWarnings(role)) = 1
            /\ \A k \in DivergenceWarnings(role) : ret.warnings[k].node = NodeOf(d)

\* C7: a stream or read error other than not-found, forbidden or
\* no-matching-kind ends the pass at that path: fetch returns the error and
\* no result map, no later path is streamed, and c.found keeps its value.
C7_FatalErrorAborts ==
    [][ /\ (Streamed /\ Answer.kind \in {"error", "readerr"}) =>
              /\ pc' = "idle"
              /\ ret'.called /\ ret'.err # NoErr /\ ret'.nil
              /\ found' = found
        /\ (\E i \in DOMAIN trace : trace[i].kind \in {"error", "readerr"}) =>
              (trace' = trace \/ trace' = <<>>) ]_vars

C7_Witness ==
    /\ PassDone /\ ret.err # NoErr /\ ret.nil
    /\ trace # <<>> /\ Len(trace) < Len(resources)
    /\ trace[Len(trace)].kind = "error"
    /\ ~found.nil /\ DOMAIN found.m # {}

\* C8: a path answered with forbidden or no-matching-kind appends exactly
\* one warning for its URI, stores nothing, and the loop goes on with the
\* next path.
C8_ForbiddenNoMatchNonFatal ==
    [][ (Streamed /\ Answer.kind \in {"forbidden", "nomatch"}) =>
            /\ results' = results
            /\ Len(warnings') = Len(warnings) + 1
            /\ SubSeq(warnings', 1, Len(warnings)) = warnings
            /\ warnings'[Len(warnings')].w = "could not fetch"
            /\ warnings'[Len(warnings')].uri = Current.ObjPath
            /\ pc' = "loop"
            /\ idx' = idx + 1 ]_vars

C8_Witness ==
    /\ PassOK /\ Len(trace) = Len(resources)
    /\ \E i \in DOMAIN trace :
          /\ trace[i].kind \in {"forbidden", "nomatch"}
          /\ resources[i].DumpPath \notin DOMAIN found.m
          /\ Cardinality(WarningsFor(resources[i].ObjPath)) = 1
          /\ \E j \in DOMAIN trace : j > i /\ resources[j].DumpPath \in DOMAIN found.m

SeveralResults(rpath, o) ==
    /\ o.kind = "ok" /\ rpath.Filter # "" /\ IsJSON(o.body)
    /\ LET it == RunFilter(rpath.Filter, o.body.val)
       IN ~it.err /\ Len(it.vals) >= 2

NoResults(rpath, o) ==
    /\ o.kind = "ok" /\ rpath.Filter # "" /\ IsJSON(o.body)
    /\ LET it == RunFilter(rpath.Filter, o.body.val)
       IN ~it.err /\ Len(it.vals) = 0

\* C9: when the filter of a path yields two or more values, the first value
\* is stored at the DumpPath, exactly one more-than-one-object warning is
\* appended, and the loop goes on with the next path.
C9_FilterSeveralResults ==
    [][ (Streamed /\ SeveralResults(Current, Answer)) =>
            /\ results' = Put(results, Current.DumpPath,
                              Marshal(RunFilter(Current.Filter, Answer.body.val).vals[1]))
            /\ Len(warnings') = Len(warnings) + 1
            /\ SubSeq(warnings', 1, Len(warnings)) = warnings
            /\ warnings'[Len(warnings')].w = MoreThanOneObjErr
            /\ pc' = "loop"
            /\ idx' = idx + 1 ]_vars

C9_Witness ==
    /\ PassOK /\ Len(trace) = Len(resources)
    /\ \E i \in DOMAIN trace :
          /\ SeveralResults(resources[i], trace[i])
          /\ found.m[resources[i].DumpPath] = Marshal([name |-> "a"])
          /\ \E k \in DOMAIN ret.warnings : ret.warnings[k].w = MoreThanOneObjErr
          /\ i < Len(trace)

\* C10: when the filter of a path yields no value, filter returns an error
\* that is not the more-than-one-object error, and fetch returns an error
\* at that path with nothing stored for it and no later path streamed.
C10_FilterNoResult ==
    [][ (Streamed /\ NoResults(Current, Answer)) =>
            /\ filter(Answer.body, Current.Filter).err \notin {NoErr, MoreThanOneObjErr}
            /\ results' = results
            /\ pc' = "idle"
            /\ ret'.called /\ ret'.err # NoErr /\ ret'.nil
            /\ found' = found ]_vars

C10_Witness ==
    /\ PassDone /\ ret.err # NoErr /\ ret.nil
    /\ trace # <<>> /\ Len(trace) < Len(resources)
    /\ NoResults(resources[Len(trace)], trace[Len(trace)])
    /\ resources[Len(trace)].DumpPath \notin DOMAIN results

-----------------------------------------------------------------------------
(* Persist claims *)

\* the file a DumpPath is saved to
SavedAt(apiPath) ==
    LET dest == getSaveDirectoryAndFileName(rootDir, apiPath)
    IN Join(dest.dir, <<dest.file>>)

\* the files a step has created or given another content
Written == {p \in DOMAIN disk'.files :
               p \notin DOMAIN disk.files \/ disk'.files[p] # disk.files[p]}

\* C11: c.found changes only when a fetch pass has gone through every path
\* without an error, and then to the result map of that pass; a pass that
\* fails leaves c.found as it was; every file SaveResources creates or
\* changes holds the bytes c.found has at the DumpPath saved to that file.
\* So every file of the output directory comes from a completed pass.
C11_NoPartialOutput ==
    [][ /\ (pc = "loop" /\ pc' = "idle" /\ ret'.err # NoErr) => found' = found
        /\ found' # found =>
              /\ pc = "loop" /\ pc' = "idle" /\ ret'.err = NoErr
              /\ Len(trace) = Len(resources)
              /\ \E order \in Orders(DOMAIN results) :
                    found' = [nil |-> FALSE,
                              m |-> saveConsistentKubeletResult(results, warnings, order).results]
        /\ \A p \in Written :
              /\ ~found.nil
              /\ \E k \in DOMAIN found.m : SavedAt(k) = p /\ disk'.files[p] = found.m[k] ]_vars

\* a pass has failed after another node config was read, and the output
\* directory holds what the completed pass before it had found
C11_Witness ==
    /\ PassDone /\ ret.err # NoErr
    /\ ~found.nil
    /\ saved = [op |-> "SaveResources", err |-> NoErr]
    /\ LET k == <<"", "kubeletconfig", "worker", "n1">>
       IN /\ k \in DOMAIN results /\ k \in DOMAIN found.m
          /\ results[k] # found.m[k]
          /\ SavedAt(k) \in DOMAIN disk.files
          /\ disk.files[SavedAt(k)] = found.m[k]

\* a SaveResources call has just returned
SaveStep ==
    /\ pc = "idle" /\ pc' = "idle" /\ found' = found
    /\ saved'.op = "SaveResources"
    /\ (disk' # disk \/ saved' # saved)

\* neither the basename nor the directory part is "." or "/"
NonDegenerate(apiPath) ==
    /\ Base(apiPath) \notin {".", "/"}
    /\ Dir(apiPath) \notin {<<".">>, <<"", "">>}

\* C12: when no DumpPath of c.found is degenerate, SaveResources returns no
\* error, and afterwards every DumpPath has its file in the directory
\* rootDir + dir(DumpPath), named base(DumpPath), with the bytes of its
\* entry; also when one DumpPath is a path prefix of another.
C12_PersistMapping ==
    [][ (SaveStep /\ \A k \in DOMAIN found.m : NonDegenerate(k)) =>
            /\ saved'.err = NoErr
            /\ \A k \in DOMAIN found.m :
                  LET p == (rootDir \o Tail(Dir(k))) \o <<Base(k)>>
                  IN /\ p \in DOMAIN disk'.files
                     /\ disk'.files[p] = found.m[k]
                     /\ SubSeq(p, 1, Len(p) - 1) \in disk'.dirs ]_vars

\* C13 as stated: getSaveDirectoryAndFileName returns an error for every
\* DumpPath whose basename is "." or "/" or whose directory part is "." or
\* "/", and no error for every other DumpPath.
C13_DegenerateDestination ==
    (~call.nil /\ call.done) =>
        (call.err # NoErr <=>
            \/ Base(call.apiPath) \in {".", "/"}
            \/ Dir(call.apiPath) \in {<<".">>, <<"", "">>})

\* C13, amended: getSaveDirectoryAndFileName returns an error exactly for the
\* DumpPaths whose basename is "." or "/" or whose directory part is "."; a
\* DumpPath directly under the root, such as /version, is accepted and gets
\* the directory rootDir and its basename as file name.
C13_DegenerateDestinationAmended ==
    (~call.nil /\ call.done) =>
        /\ call.err # NoErr <=>
              \/ Base(call.apiPath) \in {".", "/"}
              \/ Dir(call.apiPath) = <<".">>
        /\ call.err = NoErr =>
              /\ call.file = Base(call.apiPath)
              /\ call.dir = Clean(rootDir \o Dir(call.apiPath))
        /\ (call.err = NoErr /\ Dir(call.apiPath) = <<"", "">>) => call.dir = rootDir

C13_Witness ==
    /\ ~call.nil /\ call.done
    /\ call.apiPath = <<"", "version">>
    /\ call.err = NoErr
    /\ call.dir = <<"", "kubernetes-api-resources">>
    /\ call.file = "version"

-----------------------------------------------------------------------------
(* More discovery claims *)

\* the ids the benchmark document gives a value: its Value elements and
\* its set-values
BenchmarkIds == DOMAIN collectValues(lastRun.dataStream, lastRun.dataStream)

\* C14: in every run with a tailoring document, the variable table the
\* paths of the tailoring-selected rules are extracted with and the table
\* the paths of the extended profile's rules are extracted with hold only
\* ids the benchmark document defines.
C14_TailoringAddsNoIds ==
    (RanOK /\ ~lastRun.tailoring.nil) =>
        /\ ~lastRun.out.tailoringValues.nil
        /\ DOMAIN lastRun.out.tailoringValues.m \subseteq BenchmarkIds
        /\ ~lastRun.out.profileValues.nil =>
              DOMAIN lastRun.out.profileValues.m \subseteq BenchmarkIds

-----------------------------------------------------------------------------
(* More fetch claims *)

RoleKey(role) == kubeletConfigRolePathPrefix \o <<role>>

\* C15: no role-level key /kubeletconfig/role/<role> equals the node-level
\* key of a path of the list, getRoleNodeNameFromDumpPath gives every
\* role-level key the empty role, and after a pass without error every
\* node-level entry that was fetched still holds its node's config.
C15_KeyNamespacesDisjoint ==
    /\ \A role \in RolesOf(resources) :
          /\ \A i \in DOMAIN resources : resources[i].DumpPath # RoleKey(role)
          /\ getRoleNodeNameFromDumpPath(RoleKey(role)).role = ""
    /\ (PassOK /\ Len(trace) = Len(resources)) =>
          \A i \in DOMAIN resources :
              (RoleOf(i) # "" /\ FetchedSuccessfully(i)) =>
                  found.m[resources[i].DumpPath] = Expected(i)

\* the rules of the benchmark of the last run with this id
RulesNamed(checkID) ==
    SelectSeq(lastRun.dataStream.Rules, LAMBDA rule : rule.id = checkID)

\* the annotations of the first such rule that yield a path with the table
Yielding(checkID, table) ==
    {w \in DOMAIN RulesNamed(checkID)[1].warnings :
        Len(GetPathFromWarningXML(RulesNamed(checkID)[1].warnings[w], table)) > 0}

\* the selected idref matches no Rule, or its Rule has no annotation that
\* yields a path
Skipped(checkID, table) ==
    RulesNamed(checkID) = <<>> \/ Yielding(checkID, table) = {}

\* what one selected check contributes: nothing when it is skipped
Contribution(checkID, table) ==
    IF Skipped(checkID, table) THEN <<>>
    ELSE LET first == CHOOSE w \in Yielding(checkID, table) :
                         \A v \in Yielding(checkID, table) : w <= v
         IN GetPathFromWarningXML(RulesNamed(checkID)[1].warnings[first], table)

\* the idrefs the profiles of the benchmark with the requested id select
SelectedOfRun ==
    LET mine == SelectSeq(lastRun.dataStream.Profiles, LAMBDA p : p.id = lastRun.profile)
        on(p) == SelectSeq(p.selects, LAMBDA c : c.selected = "true" /\ c.idref # "")
    IN Flatten([i \in 1..Len(mine) |-> [j \in 1..Len(on(mine[i])) |-> on(mine[i])[j].idref]])

\* C16: a run without tailoring fails only when the nodes cannot be listed;
\* when it succeeds, c.resources is the fixed and the kubelet paths followed
\* by the contribution of each selected check in order, where a check whose
\* idref matches no Rule, or whose Rule has no annotation yielding a path,
\* contributes nothing, and an absent profile contributes nothing at all
\* (with a tailoring document too, when it has no such profile); no warning
\* list is touched.
C16_SilentSkip ==
    /\ ~lastRun.nil => lastRun.err \in {NoErr, "failed to list nodes"}
    /\ warnings = <<>> /\ ret = NoReturn
    /\ (RanOK /\ lastRun.tailoring.nil) =>
          LET n == Len(FixedPaths) + Cardinality(RoleNodePairs(nodeList))
              table == collectValues(lastRun.dataStream, lastRun.dataStream)
              sel == SelectedOfRun
          IN /\ Len(resources) >= n
             /\ SubSeq(resources, n + 1, Len(resources)) =
                   Flatten([i \in 1..Len(sel) |-> Contribution(sel[i], table)])
             /\ ProfilesNamed(lastRun.dataStream, lastRun.profile) = {} =>
                   Len(resources) = n
    /\ (RanOK /\ ~lastRun.tailoring.nil
          /\ ProfilesNamed(lastRun.tailoring, lastRun.profile) = {}) =>
          Len(resources) = Len(FixedPaths) + Cardinality(RoleNodePairs(nodeList))

\* profile P selects r1, then rX (no such Rule) and r6 (no annotation), then
\* r3: the paths of r1 and r3 are there, nothing else
C16_Witness ==
    /\ RanOK /\ lastRun.tailoring.nil
    /\ lastRun.profile = "P"
    /\ SelectedOfRun = <<"r1", "rX", "r6", "r3">>
    /\ RulesNamed("rX") = <<>>
    /\ RulesNamed("r6") # <<>> /\ Skipped("r6", EmptyMap)
    /\ LET n == Len(FixedPaths) + Cardinality(RoleNodePairs(nodeList))
       IN /\ Len(resources) = n + 2
          /\ resources[n + 1].ObjPath = <<"", "apis", "oauths", "1">>
          /\ resources[n + 2].ObjPath = <<"", "api", "v1", "pods">>

-----------------------------------------------------------------------------
(* Content wait *)

\* C17: openNonEmptyFile returns only a file that a poll has opened and
\* found with a size above zero, through the channel, and never an error;
\* the process ends by the timeout only at or after the deadline, while the
\* caller still waits; a poll whose os.Open fails with an error other than
\* not-exist does nothing but end the process; with nothing in the channel
\* the caller's only way on is the timeout, which ends the process.
C17_ContentWait ==
    /\ [](waiter.pc = "returned" =>
             /\ waiter.err = NoErr
             /\ waiter.file.size > 0)
    /\ [](exited = "timeout" => now >= contentFileTimeout /\ waiter.pc = "select")
    /\ [][ /\ waiter' # waiter =>
                 /\ waiter.pc = "select" /\ waiter'.pc = "returned"
                 /\ readFileTimeoutChan # <<>>
                 /\ waiter'.file = Head(readFileTimeoutChan)
           /\ Len(readFileTimeoutChan') > Len(readFileTimeoutChan) =>
                 /\ poller.pc = "send" /\ fileState = "content"
                 /\ readFileTimeoutChan'[Len(readFileTimeoutChan')].size > 0
           /\ (poller.pc = "open" /\ fileState = "denied") => poller' = poller
           /\ exited' # exited =>
                 \/ /\ exited' = "open failed"
                    /\ poller.pc = "open" /\ fileState = "denied"
                 \/ /\ exited' = "timeout"
                    /\ waiter.pc = "select" /\ now >= contentFileTimeout ]_vars

\* the deadline has passed without any poll finding contents, and the
\* process was ended by the timeout
C17_Witness ==
    /\ exited = "timeout"
    /\ now = contentFileTimeout
    /\ waiter.pc = "select"
    /\ fileState = "empty"
    /\ readFileTimeoutChan = <<>>

-----------------------------------------------------------------------------
(* Warnings file *)

\* a SaveWarningsIfAny call has just returned
WarnStep ==
    /\ pc = "idle" /\ pc' = "idle"
    /\ saved'.op = "SaveWarningsIfAny"
    /\ (disk' # disk \/ saved' # saved)

\* C18: SaveWarningsIfAny with a nil or empty list returns no error and
\* leaves every file and directory as it was; with a list of n > 0 warnings
\* it writes the output file, and no other, with the n warnings in list
\* order and a newline between each two.
C18_WarningsFile ==
    [][ WarnStep =>
          LET list == saved'.arg.list
          IN /\ saved'.err = NoErr
             /\ (saved'.arg.nil \/ Len(list) = 0) => disk' = disk
             /\ (~saved'.arg.nil /\ Len(list) > 0) =>
                   /\ outputFile \in DOMAIN disk'.files
                   /\ disk'.dirs = disk.dirs
                   /\ DOMAIN disk'.files = DOMAIN disk.files \cup {outputFile}
                   /\ \A p \in DOMAIN disk.files : p # outputFile => disk'.files[p] = disk.files[p]
                   /\ LET text == disk'.files[outputFile].text
                      IN /\ Len(text) = 2 * Len(list) - 1
                         /\ \A i \in 1..Len(list) : text[2 * i - 1] = list[i]
                         /\ \A i \in 1..(Len(list) - 1) : text[2 * i] = Newline ]_vars

\* two warnings of one pass are in the file, in the order fetch appended them
C18_Witness ==
    /\ saved.op = "SaveWarningsIfAny" /\ saved.err = NoErr
    /\ saved.arg.list = ret.warnings
    /\ Len(ret.warnings) = 2
    /\ outputFile \in DOMAIN disk.files
    /\ LET text == disk.files[outputFile].text
       IN /\ Len(text) = 3
          /\ text[1].w = MoreThanOneObjErr
          /\ text[2] = Newline
          /\ text[3].w = "could not fetch"

-----------------------------------------------------------------------------
(* Unfiltered paths *)

\* the path just streamed has no filter and its stream and read succeeded
StreamedUnfiltered == Streamed /\ Current.Filter = "" /\ Answer.kind = "ok"

\* C19 as stated: for every path with an empty Filter whose fetch succeeds,
\* the result map holds at its DumpPath exactly the bytes read, whatever the
\* body, an empty body included.
C19_UnfilteredPassThrough ==
    [][ StreamedUnfiltered =>
            /\ pc' = "loop"
            /\ Current.DumpPath \in DOMAIN results'
            /\ results'[Current.DumpPath] = Answer.body ]_vars

\* C19, amended: for every path with an empty Filter whose fetch succeeds
\* with a body that is not empty, the result map holds at its DumpPath
\* exactly the bytes read; an empty body stores nothing and changes nothing
\* in the map; in both cases no warning is added and the loop goes on with
\* the next path, and a pass that ends without error leaves the bytes in
\* c.found.
C19_UnfilteredPassThroughAmended ==
    /\ [][ StreamedUnfiltered =>
              /\ pc' = "loop" /\ idx' = idx + 1
              /\ warnings' = warnings
              /\ Answer.body.fmt # "empty" =>
                    results' = Put(results, Current.DumpPath, Answer.body)
              /\ Answer.body.fmt = "empty" => results' = results ]_vars
    /\ []((PassOK /\ Len(trace) = Len(resources)) =>
             \A i \in DOMAIN resources :
                 (resources[i].Filter = "" /\ trace[i].kind = "ok") =>
                     IF trace[i].body.fmt = "empty"
                     THEN resources[i].DumpPath \notin DOMAIN found.m
                     ELSE /\ resources[i].DumpPath \in DOMAIN found.m
                          /\ found.m[resources[i].DumpPath] = trace[i].body)

\* /version was read with its pretty-printed body, which c.found holds as read
C19_Witness ==
    /\ PassOK /\ Len(trace) = Len(resources)
    /\ \E i \in DOMAIN resources :
          /\ resources[i].Filter = "" /\ trace[i].kind = "ok"
          /\ trace[i].body = [fmt |-> "pretty", val |-> [gitVersion |-> "v1.25"]]
          /\ found.m[resources[i].DumpPath] = [fmt |-> "pretty", val |-> [gitVersion |-> "v1.25"]]

-----------------------------------------------------------------------------
(* Reconciliation *)

\* the node-level keys of the role in the map given to the call
NodeKeys(role) ==
    {k \in DOMAIN call.result : Len(k) = 4 /\ k[2] = "kubeletconfig" /\ k[3] = role}

RolesGiven == {k[3] : k \in {k \in DOMAIN call.result : Len(k) = 4 /\ k[2] = "kubeletconfig"}}

\* the members present and equal in every node entry of the role
InEvery(role) ==
    {m \in UNION {DOMAIN call.result[k].val : k \in NodeKeys(role)} :
        \A k1, k2 \in NodeKeys(role) :
            /\ m \in DOMAIN call.result[k1].val
            /\ m \in DOMAIN call.result[k2].val
            /\ call.result[k1].val[m] = call.result[k2].val[m]}

AllEqual(role) ==
    \A k1, k2 \in NodeKeys(role) : call.result[k1].val = call.result[k2].val

WarningsOfRole(role) ==
    {i \in DOMAIN call.warnings :
        call.warnings[i].w = "Kubelet configs are not consistent"
          /\ call.warnings[i].role = role}

\* C20: whatever the order of the visit, saveConsistentKubeletResult returns
\* no error, and for every role with a node entry the value at
\* /kubeletconfig/role/<role> is the JSON object of exactly the members
\* present and equal in all node entries of the role; when the entries are
\* all equal it is that config and there is no divergence warning for the
\* role, otherwise there is at least one; the node entries stay as given.
C20_RoleArtifactIsIntersection ==
    (~call.nil /\ call.done) =>
        /\ call.err = NoErr /\ ~call.out.nil
        /\ \A k \in DOMAIN call.result :
              k \in DOMAIN call.out.m /\ call.out.m[k] = call.result[k]
        /\ \A role \in RolesGiven :
              LET key == kubeletConfigRolePathPrefix \o <<role>>
                  one == CHOOSE k \in NodeKeys(role) : TRUE
              IN /\ key \in DOMAIN call.out.m
                 /\ IsJSON(call.out.m[key])
                 /\ DOMAIN call.out.m[key].val = InEvery(role)
                 /\ \A m \in InEvery(role) :
                       call.out.m[key].val[m] = call.result[one].val[m]
                 /\ AllEqual(role) =>
                       /\ call.out.m[key].val = call.result[one].val
                       /\ WarningsOfRole(role) = {}
                 /\ ~AllEqual(role) => WarningsOfRole(role) # {}

\* three worker nodes with three configs that differ pairwise in one member
\* or the other: nothing but kind and apiVersion is common to all
C20_Witness ==
    /\ ~call.nil /\ call.done /\ call.err = NoErr
    /\ Cardinality(NodeKeys("worker")) = 3
    /\ \A k1, k2 \in NodeKeys("worker") :
          k1 # k2 => call.result[k1].val # call.result[k2].val
    /\ DOMAIN call.out.m[<<"", "kubeletconfig", "role", "worker">>].val = {"kind", "apiVersion"}
    /\ Cardinality(WarningsOfRole("worker")) = 2
    /\ NodeKeys("master") # {}
    /\ WarningsOfRole("master") = {}

-----------------------------------------------------------------------------
(* Paginated listing *)

Returned == stream.pc = "returned"
GoodPage(k) == ~listed[k].answer.err /\ ~filterMcList(listed[k].answer.Items).err
LastPage == listed[Len(listed)]

HasConfig(mc) == mc.raw.fmt # "empty"

\* the item as it is expected in the output: the files of its config gone
WithoutFiles(mc) ==
    IF HasConfig(mc)
    THEN [name |-> mc.name,
          raw |-> [fmt |-> "compact",
                   val |-> [ignition |-> mc.raw.val.ignition,
                            storage |-> [k \in (DOMAIN mc.raw.val.storage) \ {"files"} |->
                                            mc.raw.val.storage[k]]]]]
    ELSE mc

\* every item of every page, in page order
AllItems ==
    Flatten([k \in 1..Len(listed) |->
               [i \in 1..Len(listed[k].answer.Items) |-> WithoutFiles(listed[k].answer.Items[i])]])

\* C21: mcStreamer.Stream passes "" with the first request and then the
\* token of the page before; it asks for another page exactly when the page
\* listed and parsed and its token was not empty; it returns the
\* serialization, made once and after the last page, of every item of every
\* page in page order, each config without its files; and when a page fails
\* to list or to parse it returns an error and no output.
C21_PaginatedListing ==
    /\ \A k \in DOMAIN listed :
          /\ listed[k].opts.Continue = IF k = 1 THEN NoToken ELSE listed[k - 1].answer.Continue
          /\ k < Len(listed) => GoodPage(k) /\ listed[k].answer.Continue # NoToken
    /\ (stream.pc = "list" /\ listed # <<>>) =>
          /\ GoodPage(Len(listed)) /\ LastPage.answer.Continue # NoToken
          /\ continueToken = LastPage.answer.Continue
          /\ stream.encodes = 0
    /\ stream.pc = "encode" =>
          /\ GoodPage(Len(listed)) /\ LastPage.answer.Continue = NoToken
          /\ stream.encodes = 0
    /\ Returned =>
          /\ listed # <<>>
          /\ IF GoodPage(Len(listed))
             THEN /\ LastPage.answer.Continue = NoToken
                  /\ stream.encodes = 1
                  /\ stream.err = NoErr => stream.buf = [fmt |-> "pretty", val |-> [items |-> AllItems]]
             ELSE stream.err # NoErr /\ stream.encodes = 0
          /\ stream.err # NoErr => stream.buf = NoBuf

C21_Witness ==
    /\ Returned /\ stream.err = NoErr
    /\ Len(listed) = 2
    /\ Len(listed[1].answer.Items) = 2 /\ Len(listed[2].answer.Items) = 1
    /\ listed[1].answer.Items[2].name = "01-files"
    /\ listed[1].answer.Items[1].name = "00-plain"
    /\ listed[2].answer.Items[1].name = "02-nofiles"
    /\ listed[2].opts.Continue = TokenAfter(1)
    /\ Len(stream.buf.val.items) = 3
    /\ "files" \notin DOMAIN stream.buf.val.items[2].raw.val.storage

-----------------------------------------------------------------------------
(* Tailoring without extension *)

\* a tailoring document was loaded and none of its profiles of the name
\* asked for has an extends attribute (there may be no such profile)
NoExtension ==
    /\ RanOK
    /\ ~lastRun.tailoring.nil
    /\ \A i \in ProfilesNamed(lastRun.tailoring, lastRun.profile) :
          lastRun.tailoring.Profiles[i].extends = ""

\* the paths of the rules the tailoring profile selects
TailoringSelected ==
    IF Len(lastRun.dataStream.Rules) = 0 THEN <<>>
    ELSE pathsOfChecks(selectedChecksOf(lastRun.tailoring, lastRun.profile),
                       lastRun.dataStream.Rules,
                       collectValues(lastRun.dataStream, lastRun.tailoring))

\* C22: when a tailoring document is loaded and the tailoring profile has no
\* extends attribute, or is not in the tailoring document, c.resources is
\* the fixed paths, then the per-(role,node) paths, then the paths the
\* tailoring profile selects, and nothing else: the benchmark's profiles are
\* not searched.
C22_TailoringWithoutExtension ==
    NoExtension =>
        LET k == Cardinality(RoleNodePairs(nodeList))
            n == Len(FixedPaths) + k
        IN /\ Len(resources) = n + Len(TailoringSelected)
           /\ SubSeq(resources, 1, Len(FixedPaths)) = FixedPaths
           /\ \A j \in (Len(FixedPaths) + 1)..n : IsKubeletPath(resources[j])
           /\ SubSeq(resources, n + 1, Len(resources)) = TailoringSelected
           /\ lastRun.out.profileValues.nil

\* the profile asked for is in the benchmark, where it selects rules with
\* paths, and not in the tailoring document
C22_Witness ==
    /\ NoExtension
    /\ lastRun.profile = "P"
    /\ ProfilesNamed(lastRun.tailoring, "P") = {}
    /\ ProfilesNamed(lastRun.dataStream, "P") # {}
    /\ getResourcePaths(lastRun.dataStream, lastRun.dataStream, "P", NilMap).out # <<>>
    /\ Cardinality(RoleNodePairs(nodeList)) = 3
    /\ Len(resources) = Len(FixedPaths) + 3

-----------------------------------------------------------------------------
(* Single-hop extension *)

\* the tailoring profile of the last run extends a profile
Extending ==
    /\ RanOK
    /\ ~lastRun.tailoring.nil
    /\ Cardinality(ProfilesNamed(lastRun.tailoring, lastRun.profile)) = 1
    /\ ExtendedProfile # ""

\* the profiles the extended profile extends in the benchmark
SecondHop ==
    {lastRun.dataStream.Profiles[i].extends :
        i \in ProfilesNamed(lastRun.dataStream, ExtendedProfile)} \ {""}

\* the idrefs the profiles of exactly this id select, in document order
OwnSelects(doc, id) ==
    LET own == SelectSeq(doc.Profiles, LAMBDA p : p.id = id)
        picked(p) == SelectSeq(p.selects, LAMBDA c : c.selected = "true" /\ c.idref # "")
    IN Flatten([i \in 1..Len(own) |-> [j \in 1..Len(picked(own[i])) |-> picked(own[i])[j].idref]])

SelectedBy(doc, id) == {OwnSelects(doc, id)[i] : i \in DOMAIN OwnSelects(doc, id)}

PathsFor(checks, table) ==
    IF Len(lastRun.dataStream.Rules) = 0 THEN <<>>
    ELSE pathsOfChecks(checks, lastRun.dataStream.Rules, table)

\* the rules only a profile of the second hop selects
OnlySecondHop ==
    (UNION {SelectedBy(lastRun.dataStream, q) : q \in SecondHop})
       \ (SelectedBy(lastRun.tailoring, lastRun.profile)
            \cup SelectedBy(lastRun.dataStream, ExtendedProfile))

\* the paths a rule yields with the table of the second search
YieldOf(id) ==
    LET p == pathsOfChecks(<<id>>, lastRun.dataStream.Rules, MergedTable)
    IN {p[i] : i \in DOMAIN p}

ProfileDerived ==
    LET n == Len(FixedPaths) + Cardinality(RoleNodePairs(nodeList))
    IN SubSeq(resources, n + 1, Len(resources))

\* C23: when the tailoring profile extends P, the paths after the fixed and
\* the per-(role,node) paths are those of the rules the tailoring profile
\* selects followed by those of the rules P selects in the benchmark; a
\* profile P itself extends is not searched, and no path of a rule only
\* that profile selects is in c.resources.
C23_SingleHop ==
    Extending =>
        /\ ProfileDerived =
              PathsFor(OwnSelects(lastRun.tailoring, lastRun.profile),
                       collectValues(lastRun.dataStream, lastRun.tailoring))
                \o PathsFor(OwnSelects(lastRun.dataStream, ExtendedProfile), MergedTable)
        /\ \A id \in OnlySecondHop :
              \A j \in DOMAIN ProfileDerived : ProfileDerived[j] \notin YieldOf(id)

C23_Witness ==
    /\ Extending
    /\ lastRun.profile = "T" /\ ExtendedProfile = "P" /\ SecondHop = {"Q"}
    /\ OnlySecondHop = {"r4"}
    /\ Cardinality(YieldOf("r4")) = 2
    /\ Len(OwnSelects(lastRun.tailoring, "T")) = 1
    /\ Len(OwnSelects(lastRun.dataStream, "P")) = 4
    /\ Len(ProfileDerived) = 3

-----------------------------------------------------------------------------
(* Selection order *)

PathsCalled == ~call.nil /\ call.done /\ "profileDefs" \in DOMAIN call

\* the paths of the annotation of least index that has any, with the table
\* the call returned
FirstYield(id) ==
    LET defs == SelectSeq(call.ruleDefs.Rules, LAMBDA r : r.id = id)
        notes == IF defs = <<>> THEN <<>> ELSE defs[1].warnings
        yield(k) == GetPathFromWarningXML(notes[k], call.valuesList)
        yielding == {k \in DOMAIN notes : Len(yield(k)) > 0}
    IN IF yielding = {} THEN <<>>
       ELSE yield(CHOOSE k \in yielding : \A m \in yielding : k <= m)

\* C24: the ResourcePaths getResourcePaths returns are, for the select
\* entries of the profile with selected="true" and an idref, in the order of
\* the entries, the paths of the first annotation of the rule that yields
\* any, all of them and next to each other; other entries add nothing.
C24_SelectionOrder ==
    PathsCalled =>
        LET chosen == OwnSelects(call.profileDefs, call.profile)
        IN call.out = Flatten([i \in 1..Len(chosen) |-> FirstYield(chosen[i])])

\* profile P of the benchmark: r1, r2 not selected, a rule that is missing,
\* an entry without idref, r6 without annotation, r3 whose first annotation
\* yields nothing and whose second and third do
C24_Witness ==
    /\ PathsCalled
    /\ call.profile = "P" /\ call.profileDefs = Benchmark1 /\ call.ruleDefs = Benchmark1
    /\ call.overrideValueList.nil
    /\ Len(call.out) = 2
    /\ call.out[1].ObjPath = <<"", "apis", "oauths", "1">>
    /\ call.out[2].ObjPath = <<"", "api", "v1", "pods">>

-----------------------------------------------------------------------------
(* Warning order *)

IsDivergence(w) == w.w = "Kubelet configs are not consistent"

ReconcileErrors == {"couldn't compare kubelet configs", "couldn't get intersection"}

\* the warning the answer for path i is expected to leave
PathWarnings(i) ==
    IF trace[i].kind \in {"notfound", "forbidden", "nomatch"}
    THEN <<[w |-> "could not fetch", uri |-> resources[i].ObjPath,
            reason |-> ReasonForError(trace[i].kind)]>>
    ELSE IF SeveralResults(resources[i], trace[i])
    THEN <<[w |-> MoreThanOneObjErr, filter |-> resources[i].Filter]>>
    ELSE <<>>

\* the fetch and filter warnings of the paths streamed, in the order of the list
FetchWarnings == Flatten([i \in 1..Len(trace) |-> PathWarnings(i)])

\* C25: the list fetch returns is the fetch and filter warnings of the paths
\* in the order of the ResourcePath list, and after them the divergence
\* warnings only; reconciliation starts when every path was streamed, and
\* the loop's own list never holds a divergence warning.  (A pass that ends
\* in the loop returns the warnings so far; one whose reconciliation fails
\* returns no list.)
C25_WarningOrder ==
    /\ [](\A k \in DOMAIN warnings : ~IsDivergence(warnings[k]))
    /\ [](PassDone =>
            /\ \A j, k \in DOMAIN ret.warnings :
                  (j < k /\ IsDivergence(ret.warnings[j])) => IsDivergence(ret.warnings[k])
            /\ ret.err = NoErr =>
                  /\ Len(trace) = Len(resources)
                  /\ Len(ret.warnings) >= Len(FetchWarnings)
                  /\ SubSeq(ret.warnings, 1, Len(FetchWarnings)) = FetchWarnings
                  /\ \A k \in (Len(FetchWarnings) + 1)..Len(ret.warnings) :
                        IsDivergence(ret.warnings[k])
            /\ ret.err \notin ({NoErr} \cup ReconcileErrors) => ret.warnings = FetchWarnings
            /\ ret.err \in ReconcileErrors =>
                  Len(trace) = Len(resources) /\ ret.warnings = <<>>)
    /\ [][ (pc = "loop" /\ pc' = "idle" /\ ret'.err \in ({NoErr} \cup ReconcileErrors)) =>
              /\ idx > Len(resources)
              /\ Len(trace) = Len(resources)
              /\ trace' = trace /\ results' = results ]_vars

C25_Witness ==
    /\ PassOK
    /\ Len(resources) = 3
    /\ Len(ret.warnings) = 2
    /\ ret.warnings[1].w = "could not fetch"
    /\ ret.warnings[1].uri = resources[2].ObjPath
    /\ IsDivergence(ret.warnings[2])

-----------------------------------------------------------------------------
(* Reconciliation frame *)

\* the step in which saveConsistentKubeletResult ran and returned no error
Reconciled == pc = "loop" /\ pc' = "idle" /\ idx > Len(resources) /\ ret'.err = NoErr

\* the roles of the node-level kubelet keys of the map before the call
RolesBefore == {getRoleNodeNameFromDumpPath(k).role : k \in DOMAIN results} \ {""}

\* C26: saveConsistentKubeletResult leaves every entry that was in the
\* result map as it was, adds exactly one role-level entry for every role
\* that has a node-level kubelet entry and no other entry, and appends
\* warnings for those roles only.
C26_ReconciliationFrame ==
    [][ Reconciled =>
          /\ \A k \in DOMAIN results :
                k \in DOMAIN found'.m /\ found'.m[k] = results[k]
          /\ (DOMAIN found'.m) \ (DOMAIN results) \subseteq
                {kubeletConfigRolePathPrefix \o <<r>> : r \in RolesBefore}
          /\ \A r \in RolesBefore : kubeletConfigRolePathPrefix \o <<r>> \in DOMAIN found'.m
          /\ Len(ret'.warnings) >= Len(warnings)
          /\ SubSeq(ret'.warnings, 1, Len(warnings)) = warnings
          /\ \A k \in (Len(warnings) + 1)..Len(ret'.warnings) :
                ret'.warnings[k].role \in RolesBefore ]_vars

-----------------------------------------------------------------------------
(* The poller after the return *)

ReturnedFile == waiter.pc = "returned"

\* the goroutine waits at the send and the buffer is full
BlockedOnSend == poller.pc = "send" /\ Len(readFileTimeoutChan) = 1

\* C27: after openNonEmptyFile has returned a file the goroutine goes on:
\* it is never stopped, it opens the file no more than twice, and once it
\* waits at the send with the buffer full it stays there, since nothing
\* receives from the channel any more.
C27_PollerAfterSuccess ==
    /\ [](ReturnedFile =>
            /\ fileState = "content"
            /\ exited = "no"
            /\ poller.pc \in {"open", "send", "sleep"}
            /\ poller.opens <= 2
            /\ poller.opens = 2 => BlockedOnSend)
    /\ [][ ReturnedFile =>
             /\ waiter' = waiter
             /\ Len(readFileTimeoutChan') >= Len(readFileTimeoutChan)
             /\ BlockedOnSend => (poller' = poller /\ readFileTimeoutChan' = readFileTimeoutChan) ]_vars

\* the goroutine has opened the file twice since the return and waits at the
\* send, holding the second handle, the first one in the buffer
C27_Witness ==
    /\ ReturnedFile
    /\ poller.opens = 2
    /\ BlockedOnSend
    /\ poller.size > 0

====
